---- MODULE Spec2Model ----
(***************************************************************************)
(* Model of the trade-execution core of gate-trading-bot:                  *)
(*   - src/config/settings.js        configuration loading and validation  *)
(*   - src/services/risk.service.js  calculatePositionParameters, in the   *)
(*       two drafts the file holds: the fractional-contract draft (lines   *)
(*       17-129) and the integer-contract draft (lines 155-296)            *)
(*   - src/services/gateio.service.js  request signing and private         *)
(*       requests, in the two drafts the file holds (lines 13-527 and      *)
(*       537-1064)                                                         *)
(*                                                                         *)
(* Numbers.  JavaScript numbers are modelled as exact fixed-point values:  *)
(*   balances                  in cents            (1e-2 USDT)             *)
(*   entry prices              in cents            (1e-2 USDT)             *)
(*   percentages               in basis points     (1e-2 percent)          *)
(*   quantities                in micro-contracts  (1e-6 contract)         *)
(*   money (margin, usable)    in 1e-4 USDT, with an exact remainder       *)
(*   rounded prices            in units of 10^-pricePrecision              *)
(* Products that do not fit the checker's integers go through MulDiv.      *)
(***************************************************************************)
EXTENDS Integers, Sequences, FiniteSets, TLC

VARIABLES
  config,     \* the object exported by settings.js
  version,    \* which draft of the service file is the one loaded
  args,       \* arguments of the calculatePositionParameters call
  result,     \* outcome of the call: pending, returned or thrown
  draft,        \* which draft of gateio.service.js is the one loaded
  queryParams,  \* the queryParams object of a private request, in insertion order
  queryString,  \* the query string built from it, or NotBuilt
  apiSecret,    \* this.apiSecret, set by the constructor
  clock,        \* Date.now(), in milliseconds
  pc,           \* "idle", or "awaiting" while privateRequest awaits axios
  sent,         \* the requests handed to axios, oldest first
  outcome,      \* how the last privateRequest call ended
  log,          \* the entries written through logger, oldest first
  positionMode, \* config.gateio.positionMode
  exchange,     \* what the exchange holds for the account
  op,           \* the client operation in progress and how far it has got
  processEnv,   \* process.env as settings.js sees it
  loaded,       \* outcome of loading settings.js: pending, exported or thrown
  isConnected,  \* this.isConnected of the client
  connects,     \* the connect() calls made so far and how far each has got
  attempts,     \* the trade attempts of the orchestrator, oldest first
  mutex         \* per symbol, the attempt that holds its mutex, or 0

riskVars == <<config, version, args, result>>
queryVars == <<draft, queryParams, queryString>>
signVars == <<apiSecret, clock, pc, sent, outcome, log>>
clientVars == <<positionMode, exchange, op>>
settingsVars == <<processEnv, loaded>>
connectVars == <<isConnected, connects>>
tradeVars == <<attempts, mutex>>
vars == <<riskVars, queryVars, signVars, clientVars, settingsVars, connectVars, tradeVars>>
exceptRisk == <<queryVars, signVars, clientVars, settingsVars, connectVars, tradeVars>>
exceptQuery == <<riskVars, signVars, clientVars, settingsVars, connectVars, tradeVars>>
exceptSign == <<riskVars, queryVars, clientVars, settingsVars, connectVars, tradeVars>>
exceptClient == <<riskVars, queryVars, signVars, settingsVars, connectVars, tradeVars>>
exceptSettings == <<riskVars, queryVars, signVars, clientVars, connectVars, tradeVars>>
exceptConnect == <<riskVars, queryVars, signVars, clientVars, settingsVars, tradeVars>>
exceptTrade == <<riskVars, queryVars, signVars, clientVars, settingsVars, connectVars>>

-----------------------------------------------------------------------------
(* Exact arithmetic helpers *)

\* a * b = q * c + r with 0 <= r < c, for a, b >= 0 and c > 0, computed
\* without forming the product a * b.
MulDivRec[a \in Nat, b \in Nat, c \in Nat] ==
  IF b = 0 THEN [q |-> 0, r |-> 0, c |-> c]
  ELSE LET h  == MulDivRec[a, b \div 2, c]
           r2 == 2 * h.r + (IF b % 2 = 1 THEN a % c ELSE 0)
           q2 == 2 * h.q + (IF b % 2 = 1 THEN a \div c ELSE 0)
       IN  [q |-> q2 + (r2 \div c), r |-> r2 % c, c |-> c]

MulDiv(a, b, c) == MulDivRec[a, b, c]

\* Math.round of the non-negative quotient m = q + r/c (ties go up).
MathRound(m) == m.q + (IF 2 * m.r >= m.c THEN 1 ELSE 0)

\* Math.floor of the non-negative quotient m.
MathFloor(m) == m.q

\* Comparisons of a quotient m = q + r/c with an integer k.
QuotGt(m, k) == m.q > k \/ (m.q = k /\ m.r > 0)
QuotLe(m, k) == ~QuotGt(m, k)

Abs(n) == IF n < 0 THEN -n ELSE n

RECURSIVE Pow10(_)
Pow10(n) == IF n = 0 THEN 1 ELSE 10 * Pow10(n - 1)

-----------------------------------------------------------------------------
(* JavaScript values that reach the sizer *)

Undefined == -1                      \* an absent numeric field

JsNumber(v) == [t |-> "number", v |-> v]
JsNaN       == [t |-> "NaN", v |-> 0]
JsString    == [t |-> "string", v |-> 0]
JsUndefined == [t |-> "undefined", v |-> 0]

\* utils/helpers.js isValidNumber: a finite number that is not NaN.
isValidNumber(x) == x.t = "number"

\* utils/helpers.js roundPrice(price, precision), for the non-negative price
\* a * b * 1e-6: the price rounded half away from zero to `precision`
\* decimals, in units of 10^-precision.
roundPrice(a, b, precision) == MathRound(MulDiv(a, b, Pow10(6 - precision)))

-----------------------------------------------------------------------------
(* settings.js *)

DefaultRiskPercentage == 250         \* '2.5'
DefaultLeverage == 20                \* '20'
DefaultTakeProfitPercent == 50       \* '0.5'
DefaultStopLossPercent == 30         \* '0.3'

\* process.env[name] || default, then parseFloat / parseInt.
EnvOr(v, default) == IF v = Undefined THEN default ELSE v

riskConfig(env) ==
  [ percentage        |-> EnvOr(env.RISK_PERCENTAGE, DefaultRiskPercentage),
    leverage          |-> EnvOr(env.LEVERAGE, DefaultLeverage),
    takeProfitPercent |-> EnvOr(env.TAKE_PROFIT_PERCENT, DefaultTakeProfitPercent),
    stopLossPercent   |-> EnvOr(env.STOP_LOSS_PERCENT, DefaultStopLossPercent) ]

\* The checks settings.js makes on config.risk before exporting config.
validateRiskConfig(c) ==
  /\ ~(c.percentage <= 0 \/ c.percentage > 10000)
  /\ ~(c.leverage <= 0 \/ c.leverage > 100)

-----------------------------------------------------------------------------
(* risk.service.js: what both drafts of calculatePositionParameters share *)

ZeroQuot == [q |-> 0, r |-> 0, c |-> 1]

Pending ==
  [ status |-> "pending", error |-> "", quantity |-> 0,
    requiredMargin |-> ZeroQuot, entryPrice |-> 0, stopLoss |-> 0,
    takeProfit |-> 0, leverage |-> 0, direction |-> "" ]

\* throw new Error(...), rethrown by the catch block: no result object.
Thrown(e) == [Pending EXCEPT !.status = "thrown", !.error = e]

\* The validation with the balance test weakened to balance < 0.
validationErrorZeroBalance(balance, entryPrice, direction) ==
  IF ~isValidNumber(balance) \/ balance.v < 0 THEN "InvalidBalance"
  ELSE IF ~isValidNumber(entryPrice) \/ entryPrice.v <= 0 THEN "InvalidEntryPrice"
  ELSE IF direction # "LONG" /\ direction # "SHORT" THEN "InvalidDirection"
  ELSE ""

\* The validation both drafts start with; "" when the arguments pass.
validationError(balance, entryPrice, direction) ==
  IF ~isValidNumber(balance) \/ balance.v <= 0 THEN "InvalidBalance"
  ELSE IF ~isValidNumber(entryPrice) \/ entryPrice.v <= 0 THEN "InvalidEntryPrice"
  ELSE IF direction # "LONG" /\ direction # "SHORT" THEN "InvalidDirection"
  ELSE ""

\* usableBalance = balance * 0.99, in 1e-4 USDT for a balance in cents.
usableBalance(balance) == balance * 99

\* symbolInfo.maxQty || Infinity: a falsy maxQty never clamps.
exceedsMaxQty(quantity, maxQty) ==
  /\ maxQty # Undefined
  /\ maxQty # 0
  /\ \/ quantity \div 1000000 > maxQty
     \/ quantity \div 1000000 = maxQty /\ quantity % 1000000 > 0

\* (quantity * entryPrice) / leverage, in 1e-4 USDT with exact remainder.
marginOf(quantity, entryPrice, leverage) ==
  MulDiv(quantity, entryPrice, 10000 * leverage)

\* entryPrice * (1 -/+ stopLossPercent / 100) as the factor pair (a, b) of
\* the price a * b * 1e-6.
stopLossFactor(direction) ==
  IF direction = "LONG" THEN 10000 - config.stopLossPercent
                        ELSE 10000 + config.stopLossPercent

takeProfitFactor(direction) ==
  IF direction = "LONG" THEN 10000 + config.takeProfitPercent
                        ELSE 10000 - config.takeProfitPercent

\* symbolInfo.pricePrecision !== undefined ? symbolInfo.pricePrecision : 4
pricePrecisionOf(symbolInfo) ==
  IF symbolInfo.pricePrecision # Undefined THEN symbolInfo.pricePrecision ELSE 4

Returned(quantity, margin, entryPrice, direction, symbolInfo) ==
  LET p == pricePrecisionOf(symbolInfo) IN
  [ status |-> "returned", error |-> "", quantity |-> quantity,
    requiredMargin |-> margin,
    entryPrice |-> roundPrice(entryPrice, 10000, p),
    stopLoss |-> roundPrice(entryPrice, stopLossFactor(direction), p),
    takeProfit |-> roundPrice(entryPrice, takeProfitFactor(direction), p),
    leverage |-> config.leverage, direction |-> direction ]

-----------------------------------------------------------------------------
(* risk.service.js lines 17-129: the fractional-contract draft *)

\* size = notional / entryPrice, rounded to 6 decimals:
\*   balance*0.99 * percentage/100 * leverage / entryPrice
\* which in micro-contracts is (balance*99) * (percentage*leverage) / entryPrice.
fractionalSize(balance, entryPrice) ==
  MathRound(MulDiv(usableBalance(balance),
                   config.percentage * config.leverage, entryPrice))

calculatePositionParametersFractional(balance, entryPrice, direction, symbolInfo) ==
  LET err == validationError(balance, entryPrice, direction) IN
  IF err # "" THEN Thrown(err)
  ELSE
    LET raw    == fractionalSize(balance.v, entryPrice.v)
        size   == IF exceedsMaxQty(raw, symbolInfo.maxQty)
                  THEN symbolInfo.maxQty * 1000000 ELSE raw
        margin == marginOf(size, entryPrice.v, config.leverage)
    IN  IF QuotGt(margin, usableBalance(balance.v))
        THEN Thrown("InsufficientBalance")
        ELSE Returned(size, margin, entryPrice.v, direction, symbolInfo)

-----------------------------------------------------------------------------
(* risk.service.js lines 155-296: the integer-contract draft *)

\* Steps 1-6: positionSize = (riskAmount / stopLossDistance) * entryPrice is
\* usable * percentage / |stopLossPercent|; when positionSize / leverage
\* exceeds usable it becomes usable * leverage; quantity is
\* Math.floor(positionSize / entryPrice), in whole contracts.
integerQuantity(balance, entryPrice) ==
  LET usable == usableBalance(balance)
      sl     == Abs(config.stopLossPercent)
      capped == config.percentage > sl * config.leverage
      size   == IF capped THEN MulDiv(usable, config.leverage, 100)
                          ELSE MulDiv(usable, config.percentage, 100 * sl)
  IN  MathFloor(size) \div entryPrice

\* Math.max(symbolInfo.minQty || 1, 1), in whole contracts.
integerMinQty(symbolInfo) ==
  IF symbolInfo.minQty = Undefined \/ symbolInfo.minQty < 1 THEN 1
  ELSE symbolInfo.minQty

\* while (finalRequiredMargin > usableBalance && quantity > minQty) quantity -= 1
RECURSIVE reduceToFit(_, _, _, _)
reduceToFit(quantity, minQty, entryPrice, usable) ==
  IF /\ QuotGt(marginOf(quantity, entryPrice, config.leverage), usable)
     /\ quantity > minQty * 1000000
  THEN reduceToFit(quantity - 1000000, minQty, entryPrice, usable)
  ELSE quantity

\* Lines 227-237: raise the floored quantity to minQty, then cut it to maxQty.
integerClampCopyPaste(quantity, minQty, maxQty) ==
  LET atLeast == IF quantity < minQty * 1000000 THEN minQty * 1000000 ELSE quantity
  IN  IF exceedsMaxQty(atLeast, maxQty) THEN minQty * 1000000 ELSE atLeast

integerClamp(quantity, minQty, maxQty) ==
  LET atLeast == IF quantity < minQty * 1000000 THEN minQty * 1000000 ELSE quantity
  IN  IF exceedsMaxQty(atLeast, maxQty) THEN maxQty * 1000000 ELSE atLeast

\* 0.1 USDT in 1e-4 USDT
MicroDifference == 1000

calculatePositionParametersInteger(balance, entryPrice, direction, symbolInfo) ==
  LET err == validationError(balance, entryPrice, direction) IN
  IF err # "" THEN Thrown(err)
  ELSE IF Abs(entryPrice.v * config.stopLossPercent) <= 0
  THEN Thrown("StopLossDistance")
  ELSE
    LET usable  == usableBalance(balance.v)
        minQty  == integerMinQty(symbolInfo)
        floored == integerQuantity(balance.v, entryPrice.v) * 1000000
        clamped == integerClamp(floored, minQty, symbolInfo.maxQty)
        fitted  == reduceToFit(clamped, minQty, entryPrice.v, usable)
        margin  == marginOf(fitted, entryPrice.v, config.leverage)
        over    == QuotGt(margin, usable)
        farOver == QuotGt(margin, usable + MicroDifference)
        final   == IF over /\ ~farOver /\ fitted > minQty * 1000000
                   THEN fitted - 1000000 ELSE fitted
    IN  IF farOver /\ fitted <= minQty * 1000000
        THEN Thrown("InsufficientBalance")
        ELSE Returned(final, marginOf(final, entryPrice.v, config.leverage),
                      entryPrice.v, direction, symbolInfo)

calculatePositionParameters(v, balance, entryPrice, direction, symbolInfo) ==
  IF v = "fractional"
  THEN calculatePositionParametersFractional(balance, entryPrice, direction, symbolInfo)
  ELSE calculatePositionParametersInteger(balance, entryPrice, direction, symbolInfo)

-----------------------------------------------------------------------------
(* gateio.service.js: query strings.  A string is a sequence of            *)
(* one-character strings; an object is the sequence of its [key, value]    *)
(* entries in insertion order; a value is a string, an array of strings    *)
(* or null.                                                                *)

StringValue(s) == [kind |-> "string", items |-> <<s>>]
ArrayValue(items) == [kind |-> "array", items |-> items]
NullValue == [kind |-> "null", items |-> <<>>]

\* UTF-16 code units of the characters used in keys.
CodeUnit(ch) ==
  CASE ch = "B" -> 66  [] ch = "_" -> 95  [] ch = "a" -> 97  [] ch = "b" -> 98
    [] ch = "c" -> 99  [] ch = "i" -> 105 [] ch = "l" -> 108 [] ch = "m" -> 109
    [] ch = "n" -> 110 [] ch = "o" -> 111 [] ch = "r" -> 114 [] ch = "t" -> 116

\* parts.join(sep)
Join(parts, sep) ==
  LET joined[i \in 0..Len(parts)] ==
        IF i = 0 THEN <<>>
        ELSE IF i = 1 THEN parts[1]
        ELSE joined[i - 1] \o sep \o parts[i]
  IN  joined[Len(parts)]

\* x < y as Array.prototype.sort() compares strings: by code units, a proper
\* prefix first.
StringLess(x, y) ==
  \E i \in 1..(Len(y)) :
    /\ \A j \in 1..(i - 1) : j <= Len(x) /\ x[j] = y[j]
    /\ \/ i = Len(x) + 1
       \/ i <= Len(x) /\ CodeUnit(x[i]) < CodeUnit(y[i])

\* keys.sort() without the sort: the keys stay in insertion order.
UnsortedKeys(keys) == keys

\* keys.sort(): insertion of each key after the smaller ones.
SortKeys(keys) ==
  LET insert(sorted, k) ==
        LET pos == Cardinality({i \in 1..Len(sorted) : StringLess(sorted[i], k)})
        IN  SubSeq(sorted, 1, pos) \o <<k>> \o SubSeq(sorted, pos + 1, Len(sorted))
      sortedUpTo[i \in 0..Len(keys)] ==
        IF i = 0 THEN <<>> ELSE insert(sortedUpTo[i - 1], keys[i])
  IN  sortedUpTo[Len(keys)]

\* Object.keys(obj) and obj[key]
ObjectKeys(obj) == [i \in 1..Len(obj) |-> obj[i].key]
Lookup(obj, key) == (CHOOSE i \in 1..Len(obj) : obj[i].key = key)

\* String(value): an array is its items joined by commas.
ToStringValue(value) ==
  IF value.kind = "null" THEN <<"n", "u", "l", "l">>
  ELSE Join(value.items, <<",">>)

\* encodeURIComponent: letters and digits pass, other characters become %XX.
encodeURIComponent(s) ==
  LET enc(ch) == CASE ch = " " -> <<"%", "2", "0">>
                   [] ch = "," -> <<"%", "2", "C">>
                   [] OTHER    -> <<ch>>
  IN  Join([i \in 1..Len(s) |-> enc(s[i])], <<>>)

\* The application/x-www-form-urlencoded serializer of URLSearchParams:
\* a space becomes +, other non-alphanumerics become %XX.
formUrlEncode(s) ==
  LET enc(ch) == CASE ch = " " -> <<"+">>
                   [] ch = "," -> <<"%", "2", "C">>
                   [] OTHER    -> <<ch>>
  IN  Join([i \in 1..Len(s) |-> enc(s[i])], <<>>)

\* Draft 1, privateRequest lines 100-105.
inlineQueryString(obj) ==
  IF Len(ObjectKeys(obj)) > 0
  THEN LET keys == SortKeys(ObjectKeys(obj))
       IN  Join([i \in 1..Len(keys) |->
                   keys[i] \o <<"=">> \o
                   encodeURIComponent(ToStringValue(obj[Lookup(obj, keys[i])].value))],
                <<"&">>)
  ELSE <<>>

\* Draft 2, buildQueryString lines 579-597: the list of appended [name, value]
\* pairs, then params.toString().
buildQueryString(obj) ==
  LET keys == SortKeys(ObjectKeys(obj))
      appended(key) ==
        LET value == obj[Lookup(obj, key)].value
        IN  IF value.kind = "null" THEN <<>>
            ELSE [i \in 1..Len(value.items) |-> <<key, value.items[i]>>]
      params == Join([i \in 1..Len(keys) |-> appended(keys[i])], <<>>)
  IN  Join([i \in 1..Len(params) |->
              formUrlEncode(params[i][1]) \o <<"=">> \o formUrlEncode(params[i][2])],
           <<"&">>)

queryStringOf(v, obj) ==
  IF v = "draft1" THEN inlineQueryString(obj) ELSE buildQueryString(obj)

Drafts == {"draft1", "draft2"}

\* No query string has been built.
NotBuilt == <<"(not built)">>

QueryIdle ==
  /\ draft = "draft1"
  /\ queryParams = <<>>
  /\ queryString = NotBuilt

-----------------------------------------------------------------------------
(* gateio.service.js: signing and private requests.  Fixed text is kept as *)
(* whole pieces ("/api/v4", "GET"); a string is the sequence of its pieces.*)

Newline == <<"\n">>

\* crypto.createHash('sha512').update(s).digest('hex'), kept symbolic: the
\* digest of s is a piece sequence that determines s (no collisions).
Sha512Hex(s) == <<"sha512(">> \o s \o <<")">>

\* crypto.createHmac('sha512', key).update(s).digest('hex'), kept symbolic.
HmacSha512Hex(key, s) == <<"hmac-sha512(">> \o key \o <<",">> \o s \o <<")">>

\* Lines 31-38: [method, resourcePath, queryString, bodyHash, timestamp].join('\n')
\* (draft 2, line 557, writes the same string as a template).
prehashSwapped(method, resourcePath, qs, bodyHash, timestamp) ==
  Join(<<method, resourcePath, qs, timestamp, bodyHash>>, Newline)

prehashOf(method, resourcePath, qs, bodyHash, timestamp) ==
  Join(<<method, resourcePath, qs, bodyHash, timestamp>>, Newline)

\* generateSignature keyed with the public API key instead of the secret.
generateSignatureWithKey(secret, method, resourcePath, qs, bodyString, timestamp) ==
  HmacSha512Hex(<<"key">>,
    prehashOf(method, resourcePath, qs, Sha512Hex(bodyString), timestamp))

\* generateSignature of both drafts (lines 25-56 and 548-574); secret is
\* this.apiSecret.  bodyString || '' of draft 2 is bodyString for a string.
generateSignature(secret, method, resourcePath, qs, bodyString, timestamp) ==
  HmacSha512Hex(secret,
    prehashOf(method, resourcePath, qs, Sha512Hex(bodyString), timestamp))

\* n.toString() for an integer n >= 0: its decimal digits.
ToDigits(n) ==
  LET digit(d) == <<"0", "1", "2", "3", "4", "5", "6", "7", "8", "9">>[d + 1]
      digits[k \in Nat] ==
        IF k < 10 THEN <<digit(k)>> ELSE digits[k \div 10] \o <<digit(k % 10)>>
  IN  digits[n]

\* The timestamp taken in milliseconds.
timestampMillis(now) == ToDigits(now)

\* Math.floor(Date.now() / 1000).toString()
timestampOf(now) == ToDigits(now \div 1000)

\* method.toUpperCase()
ToUpperCase(method) ==
  CASE method = <<"get">>  -> <<"GET">>
    [] method = <<"post">> -> <<"POST">>
    [] OTHER               -> method

\* A request body: null, or an object as the sequence of its [key, value]
\* entries, each value already a JSON literal.
NullBody == [kind |-> "null", entries |-> <<>>]
ObjectBody(entries) == [kind |-> "object", entries |-> entries]

\* JSON.stringify(body)
JSONstringify(body) ==
  <<"{">> \o
  Join([i \in 1..Len(body.entries) |->
          <<"\"">> \o body.entries[i].key \o <<"\"", ":">> \o body.entries[i].value],
       <<",">>) \o
  <<"}">>

\* body ? JSON.stringify(body) : ''
bodyStringOf(body) == IF body.kind = "null" THEN <<>> ELSE JSONstringify(body)

NoData == <<"(undefined)">>

\* body serialized with JSON.stringify(body, null, 1)-like spacing instead
\* of the compact string that was signed.
dataOfPretty(d, body, bodyString) ==
  IF body.kind = "null" THEN NoData
  ELSE <<"{", " ">> \o
       Join([i \in 1..Len(body.entries) |->
               <<"\"">> \o body.entries[i].key \o <<"\"", ":", " ">>
               \o body.entries[i].value],
            <<",", " ">>) \o
       <<" ", "}">>

\* What axios puts on the wire for `data`: draft 1 (line 140) passes
\* bodyString || undefined, draft 2 (line 671) passes body || undefined, which
\* axios serializes with JSON.stringify.
dataOf(d, body, bodyString) ==
  IF d = "draft1"
  THEN (IF bodyString # <<>> THEN bodyString ELSE NoData)
  ELSE (IF body.kind # "null" THEN JSONstringify(body) ELSE NoData)

ApiPrefix == <<"/api/v4">>
Host == <<"https://api.gateio.ws">>

\* The path that is signed: draft 1 line 98, this.apiPrefix + endpoint;
\* draft 2 line 641, '/api/v4' + endpoint.
resourcePathOf(d, endpoint) == ApiPrefix \o endpoint

\* this.baseURL: draft 1 line 15; draft 2 config.gateio.baseURL.
baseURLOf(d) == IF d = "draft1" THEN Host ELSE Host \o ApiPrefix

\* Draft 1 line 117 and draft 2 line 648.
urlOf(d, endpoint, qs) ==
  (IF d = "draft1" THEN baseURLOf(d) \o resourcePathOf(d, endpoint)
                   ELSE baseURLOf(d) \o endpoint)
  \o (IF qs # <<>> THEN <<"?">> \o qs ELSE <<>>)

\* privateRequest(method, endpoint, queryParams, body) up to its axios call,
\* when Date.now() returns `now`: the request handed to axios, the arguments
\* passed to generateSignature, and the prehash string generateSignature
\* signed (and logged, lines 52 and 571).
privateRequest(d, secret, now, call) ==
  LET timestamp  == timestampOf(now)
      method     == IF d = "draft1" THEN call.method ELSE ToUpperCase(call.method)
      path       == resourcePathOf(d, call.endpoint)
      qs         == queryStringOf(d, call.queryParams)
      bodyString == bodyStringOf(call.body)
      signature  == generateSignature(secret, method, path, qs, bodyString, timestamp)
  IN  [ axios   |-> [ method  |-> method,
                      url     |-> urlOf(d, call.endpoint, qs),
                      headers |-> [ KEY |-> <<"key">>, Timestamp |-> timestamp,
                                    SIGN |-> signature ],
                      data    |-> dataOf(d, call.body, bodyString) ],
        signed  |-> [ method |-> method, resourcePath |-> path, queryString |-> qs,
                      bodyString |-> bodyString, timestamp |-> timestamp ],
        prehash |-> prehashOf(method, path, qs, Sha512Hex(bodyString), timestamp) ]

-----------------------------------------------------------------------------
(* gateio.service.js: what generateSignature and privateRequest write to   *)
(* the log.  A logged string is its pieces, what kind of string it is, and *)
(* how many of its leading characters were written.                        *)

\* digest('hex') of a SHA-512 hash or HMAC: 128 hexadecimal characters.
HexDigestLength == 128

\* The length of the API keys the exchange issues.
ApiKeyLength == 32

\* this.apiKey, set by the constructor from config.gateio.apiKey.
apiKey == <<"key">>

FullLength(kind, chars) ==
  CASE kind = "hex" -> HexDigestLength
    [] kind = "key" -> ApiKeyLength
    [] OTHER        -> Len(chars)

Text(chars) == [kind |-> "text", chars |-> chars, shown |-> Len(chars)]
Hex(digest) == [kind |-> "hex", chars |-> digest, shown |-> HexDigestLength]
Key(chars)  == [kind |-> "key", chars |-> chars, shown |-> ApiKeyLength]

\* s.substring(0, n)
substring(s, n) ==
  [s EXCEPT !.shown = IF n < s.shown THEN n ELSE s.shown]

\* s || '(empty)'
OrEmpty(chars) == IF chars = <<>> THEN <<"(empty)">> ELSE chars

\* s.replace(/\n/g, '\\n')
EscapeNewlines(s) == [k \in 1..Len(s) |-> IF <<s[k]>> = Newline THEN "\\n" ELSE s[k]]

\* logger.info(`${label}${value}${suffix}`) and logger.error(...)
Info(label, value) == [level |-> "info", label |-> label, value |-> value]
Error(label, value) == [level |-> "error", label |-> label, value |-> value]

\* The signature as the log lines 53, 133 and 664 show it, with no
\* substring call.
shownSignatureWhole(d, signature) == Hex(signature)

\* Line 53: signature.substring(0, 40); line 133: the same; line 664:
\* signature.substring(0, 20).  Draft 2's generateSignature does not log it.
shownSignature(d, signature) ==
  IF d = "draft1" THEN substring(Hex(signature), 40)
  ELSE substring(Hex(signature), 20)

\* Line 131: this.apiKey.substring(0, 15); line 662: substring(0, 10).
shownKey(d) ==
  IF d = "draft1" THEN substring(Key(apiKey), 15) ELSE substring(Key(apiKey), 10)

\* Lines 45-53 and 565-571: the log lines of generateSignature.
generateSignatureLog(d, a, bodyHash, prehash, signature) ==
  IF d = "draft1"
  THEN << Info("[GATEIO] SIGNATURE DEBUG", Text(<<>>)),
          Info("  Method: ", Text(a.method)),
          Info("  Resource Path: ", Text(a.resourcePath)),
          Info("  Query String: ", Text(a.queryString)),
          Info("  Body: ", Text(OrEmpty(a.bodyString))),
          Info("  Body Hash: ", Hex(bodyHash)),
          Info("  Timestamp: ", Text(a.timestamp)),
          Info("  Prehash: ", Text(EscapeNewlines(prehash))),
          Info("  Signature: ", shownSignature(d, signature)) >>
  ELSE << Info("[GATEIO] Signature generation:", Text(<<>>)),
          Info("  Method: ", Text(a.method)),
          Info("  Endpoint: ", Text(a.resourcePath)),
          Info("  Query: ", Text(OrEmpty(a.queryString))),
          Info("  Body hash: ", Hex(bodyHash)),
          Info("  Timestamp: ", Text(a.timestamp)),
          Info("  Signature string: ", Text(EscapeNewlines(prehash))) >>

\* Lines 129-134 and 658-665: the log lines of privateRequest before the
\* axios call; p is what privateRequest computed.
requestLog(d, p) ==
  IF d = "draft1"
  THEN << Info("[GATEIO] PRIVATE REQUEST", Text(<<>>)),
          Info("  ", Text(p.axios.method \o <<" ">> \o p.axios.url)),
          Info("  KEY: ", shownKey(d)),
          Info("  Timestamp: ", Text(p.axios.headers.Timestamp)),
          Info("  SIGN: ", shownSignature(d, p.axios.headers.SIGN)) >>
       \o (IF p.signed.bodyString # <<>>
           THEN << Info("  Body: ", Text(p.signed.bodyString)) >> ELSE <<>>)
  ELSE << Info("[GATEIO] PRIVATE REQUEST:", Text(<<>>)),
          Info("  Method: ", Text(p.axios.method)),
          Info("  URL: ", Text(p.axios.url)),
          Info("  Headers:", Text(<<>>)),
          Info("    KEY: ", shownKey(d)),
          Info("    Timestamp: ", Text(p.axios.headers.Timestamp)),
          Info("    SIGN: ", shownSignature(d, p.axios.headers.SIGN)),
          Info("  Body: ", Text(OrEmpty(p.signed.bodyString))) >>

\* Everything privateRequest logs up to its axios call: generateSignature
\* is called (and logs) first.
privateRequestLog(d, p) ==
  generateSignatureLog(d, p.signed, Sha512Hex(p.signed.bodyString), p.prehash,
                       p.axios.headers.SIGN)
  \o requestLog(d, p)

\* Lines 143-145 and 674-676: the response is logged, its data cut to 500
\* characters.
responseLog(d, response) ==
  << Info("[GATEIO] PRIVATE RESPONSE", Text(<<>>)),
     Info("  Status: ", Text(response.status)),
     Info(IF d = "draft1" THEN "  Data: " ELSE "  Body: ",
          substring(Text(response.data), 500)) >>

\* Lines 149-153 and 680-683: the error is logged; error.response is the
\* exchange's answer, undefined when there was none.
errorLog(d, error) ==
  IF d = "draft1"
  THEN << Error("[GATEIO] PRIVATE ERROR", Text(<<>>)),
          Error("  Status: ", Text(IF error.response.status = <<>> THEN <<"N/A">>
                                   ELSE error.response.status)),
          Error("  Message: ", Text(error.message)),
          Error("  Response: ", Text(error.response.data)),
          Error("  Headers: ", Text(error.response.headers)) >>
  ELSE << Error("[GATEIO] PRIVATE REQUEST ERROR:", Text(<<>>)),
          Error("  Status: ", Text(IF error.response.status = <<>> THEN <<"undefined">>
                                   ELSE error.response.status)),
          Error("  Message: ", Text(error.message)),
          Error("  Response: ", Text(error.response.data)) >>

-----------------------------------------------------------------------------
(* gateio.service.js: symbol translation.  Symbols are character           *)
(* sequences.                                                              *)

\* s.indexOf(pattern) + 1: the position of the first occurrence, 0 if none.
IndexOf(s, pattern) ==
  LET at(k) == SubSeq(s, k, k + Len(pattern) - 1) = pattern
      hits == {k \in 1..(Len(s) - Len(pattern) + 1) : at(k)}
  IN  IF hits = {} THEN 0 ELSE CHOOSE k \in hits : \A l \in hits : k <= l

\* s.replace(pattern, replacement) for a string pattern: the first
\* occurrence only.
ReplaceFirst(s, pattern, replacement) ==
  LET k == IndexOf(s, pattern)
  IN  IF k = 0 THEN s
      ELSE SubSeq(s, 1, k - 1) \o replacement \o SubSeq(s, k + Len(pattern), Len(s))

\* s.replace(/pattern$/, replacement): the occurrence at the end only.
ReplaceAtEnd(s, pattern, replacement) ==
  IF /\ Len(s) >= Len(pattern)
     /\ SubSeq(s, Len(s) - Len(pattern) + 1, Len(s)) = pattern
  THEN SubSeq(s, 1, Len(s) - Len(pattern)) \o replacement
  ELSE s

USDT == <<"U", "S", "D", "T">>
UnderscoreUSDT == <<"_", "U", "S", "D", "T">>

\* formatSymbol: lines 158-161 replace the first 'USDT'; draft 2 lines
\* 691-694 replace /USDT$/.  The empty string is falsy and gives ''.
formatSymbol(d, symbol) ==
  IF symbol = <<>> THEN <<>>
  ELSE IF d = "draft2" THEN ReplaceAtEnd(symbol, USDT, UnderscoreUSDT)
  ELSE ReplaceFirst(symbol, USDT, UnderscoreUSDT)

\* unformatSymbol: lines 163-166 and 699-702.
unformatSymbol(d, symbol) ==
  IF symbol = <<>> THEN <<>>
  ELSE IF d = "draft2" THEN ReplaceAtEnd(symbol, UnderscoreUSDT, USDT)
  ELSE ReplaceFirst(symbol, UnderscoreUSDT, USDT)

\* The service files: the two drafts of gateio.service.js and the draft kept
\* as src/unnamed/part_001, whose symbol functions are those of draft 1.
ServiceDrafts == Drafts \cup {"part_001"}

SignIdle ==
  /\ apiSecret = <<"s1">>
  /\ clock = 0
  /\ pc = "idle"
  /\ sent = <<>>
  /\ outcome = "none"
  /\ log = <<>>

\* No client operation has been called.
NoOp == [kind |-> "none", pc |-> "done", result |-> "none", calls |-> 0]

ClientIdle ==
  /\ positionMode = "single_mode"
  /\ exchange = [leverage |-> 0]
  /\ op = NoOp

\* connect() has not been called: the constructor's this.isConnected = false
\* (lines 19 and 542).
ConnectIdle ==
  /\ isConnected = FALSE
  /\ connects = <<>>

\* The symbols trades are made in.
TradeSymbols == {"BTCUSDT", "ETHUSDT"}

\* No trade attempt has been started and no symbol's mutex is held.
TradeIdle ==
  /\ attempts = <<>>
  /\ mutex = [symbol \in TradeSymbols |-> 0]

\* settings.js is not being loaded.
SettingsIdle ==
  /\ processEnv = <<>>
  /\ loaded = [status |-> "pending"]

RiskIdle ==
  /\ config = riskConfig([RISK_PERCENTAGE |-> Undefined, LEVERAGE |-> Undefined,
                          TAKE_PROFIT_PERCENT |-> Undefined,
                          STOP_LOSS_PERCENT |-> Undefined])
  /\ version = "fractional"
  /\ args = [balance |-> JsUndefined, entryPrice |-> JsUndefined,
             direction |-> "", symbolInfo |-> [minQty |-> Undefined,
             maxQty |-> Undefined, pricePrecision |-> Undefined]]
  /\ result = Pending

-----------------------------------------------------------------------------
(* The sizer as a state machine: settings.js has exported a validated      *)
(* config, one call of calculatePositionParameters is made on arguments    *)
(* drawn from the sets below, and the call returns or throws.              *)

EnvRiskPercentage == {Undefined, 0, 10000, 10001}
EnvLeverage == {Undefined, 0, 5, 101}
EnvTakeProfitPercent == {Undefined, 0}
EnvStopLossPercent == {Undefined, 0, -30}

Envs ==
  [ RISK_PERCENTAGE : EnvRiskPercentage, LEVERAGE : EnvLeverage,
    TAKE_PROFIT_PERCENT : EnvTakeProfitPercent,
    STOP_LOSS_PERCENT : EnvStopLossPercent ]

\* The configs a process can run with: those settings.js exports.
AcceptedConfigs == {riskConfig(env) : env \in {e \in Envs : validateRiskConfig(riskConfig(e))}}

BalanceCents == {-100, 0, 1, 480, 500, 5000, 100000}
Balances == {JsNumber(v) : v \in BalanceCents} \cup {JsNaN, JsString}

PriceCents == {0, 3329, 10000, 10000000}
Prices == {JsNumber(v) : v \in PriceCents} \cup {JsNaN}

Directions == {"LONG", "SHORT", "BUY"}

SymbolInfos ==
  { [minQty |-> Undefined, maxQty |-> Undefined, pricePrecision |-> Undefined],
    [minQty |-> 1, maxQty |-> 1000000, pricePrecision |-> 2],
    [minQty |-> 1, maxQty |-> 5, pricePrecision |-> 0],
    [minQty |-> 5, maxQty |-> 1000000, pricePrecision |-> 4],
    [minQty |-> 0, maxQty |-> 0, pricePrecision |-> 1] }

Versions == {"fractional", "integer"}

RiskInit ==
  /\ config \in AcceptedConfigs
  /\ version \in Versions
  /\ args \in [balance : Balances, entryPrice : Prices,
               direction : Directions, symbolInfo : SymbolInfos]
  /\ result = Pending
  /\ QueryIdle
  /\ SignIdle
  /\ ClientIdle
  /\ SettingsIdle
  /\ ConnectIdle
  /\ TradeIdle

CalculateFractional ==
  /\ version = "fractional"
  /\ result.status = "pending"
  /\ result' = calculatePositionParametersFractional(
                 args.balance, args.entryPrice, args.direction, args.symbolInfo)
  /\ UNCHANGED <<config, version, args>>
  /\ UNCHANGED exceptRisk

CalculateInteger ==
  /\ version = "integer"
  /\ result.status = "pending"
  /\ result' = calculatePositionParametersInteger(
                 args.balance, args.entryPrice, args.direction, args.symbolInfo)
  /\ UNCHANGED <<config, version, args>>
  /\ UNCHANGED exceptRisk

RiskNext == CalculateFractional \/ CalculateInteger

SpecRisk == RiskInit /\ [][RiskNext]_vars

-----------------------------------------------------------------------------
(* Properties of the sizer (checked under SpecRisk) *)

HasReturned == result.status = "returned"
HasThrown == result.status = "thrown"

\* The symbol constraints an exchange contract carries: 1 <= minQty <= maxQty.
HasQtyLimits ==
  /\ args.symbolInfo.minQty >= 1
  /\ args.symbolInfo.maxQty >= args.symbolInfo.minQty

\* C1: whenever calculatePositionParameters returns a result, its
\* requiredMargin is at most balance * 0.99.
C1_MarginBound ==
  HasReturned => QuotLe(result.requiredMargin, args.balance.v * 99)

\* C2: whenever calculatePositionParameters returns a result for a symbol
\* with limits, minQty <= quantity <= maxQty.
C2_QuantityWithinLimits ==
  (HasReturned /\ HasQtyLimits) =>
    /\ result.quantity >= args.symbolInfo.minQty * 1000000
    /\ result.quantity \div 1000000 <= args.symbolInfo.maxQty
    /\ (result.quantity \div 1000000 = args.symbolInfo.maxQty
          => result.quantity % 1000000 = 0)

\* The quantity the loaded draft computes from balance, risk percentage,
\* leverage and entry price and then rounds, before any clamp.
RoundedQuantity ==
  IF version = "fractional"
  THEN fractionalSize(args.balance.v, args.entryPrice.v)
  ELSE integerQuantity(args.balance.v, args.entryPrice.v) * 1000000

ArgsAreValid ==
  /\ args.balance.t = "number" /\ args.balance.v > 0
  /\ args.entryPrice.t = "number" /\ args.entryPrice.v > 0
  /\ args.direction \in {"LONG", "SHORT"}

\* C3: when the rounded quantity is below the symbol's minQty, the call
\* fails with an insufficient-balance error and returns no result.
C3_BelowMinimumFails ==
  ( /\ result.status # "pending"
    /\ ArgsAreValid
    /\ config.stopLossPercent # 0
    /\ args.symbolInfo.minQty >= 1
    /\ RoundedQuantity < args.symbolInfo.minQty * 1000000 )
  => (HasThrown /\ result.error = "InsufficientBalance")

\* C4: every returned result has stopLoss < entryPrice < takeProfit for LONG
\* and takeProfit < entryPrice < stopLoss for SHORT (rounded prices).
C4_BracketOrder ==
  HasReturned =>
    /\ result.direction = "LONG" =>
         (result.stopLoss < result.entryPrice /\ result.entryPrice < result.takeProfit)
    /\ result.direction = "SHORT" =>
         (result.takeProfit < result.entryPrice /\ result.entryPrice < result.stopLoss)

\* The call of the state repeated with another balance.
WithBalance(b) ==
  calculatePositionParameters(version, JsNumber(b), args.entryPrice,
                              args.direction, args.symbolInfo)

\* C5: with everything else fixed, a smaller balance on which the call
\* returns never gives a larger quantity than the balance of this call.
C5_SizingMonotone ==
  HasReturned =>
    \A b \in BalanceCents :
      (b <= args.balance.v /\ WithBalance(b).status = "returned")
        => WithBalance(b).quantity <= result.quantity

\* C5 witness: a returned call for which a smaller balance returns a
\* strictly smaller quantity, in either draft.
C5_Witness ==
  /\ HasReturned
  /\ \E b \in BalanceCents :
       /\ b < args.balance.v
       /\ WithBalance(b).status = "returned"
       /\ WithBalance(b).quantity < result.quantity

\* C6: a call whose balance or entry price is not a number > 0, or whose
\* direction is neither LONG nor SHORT, throws the validation error of the
\* first bad argument and nothing else.
C6_ValidationFirst ==
  result.status # "pending" =>
    /\ (args.balance.t # "number" \/ args.balance.v <= 0)
         => (HasThrown /\ result.error = "InvalidBalance")
    /\ (args.entryPrice.t # "number" \/ args.entryPrice.v <= 0)
         => (HasThrown /\ result.error \in {"InvalidBalance", "InvalidEntryPrice"})
    /\ (args.direction \notin {"LONG", "SHORT"})
         => (HasThrown /\ result.error \in
               {"InvalidBalance", "InvalidEntryPrice", "InvalidDirection"})

\* C6 witness: the integer draft, under a config whose stop-loss distance is
\* zero, called with a zero balance and a bad direction, has thrown the
\* balance error.
C6_Witness ==
  /\ HasThrown
  /\ result.error = "InvalidBalance"
  /\ version = "integer"
  /\ config.stopLossPercent = 0
  /\ args.balance = JsNumber(0)
  /\ args.direction = "BUY"

-----------------------------------------------------------------------------
(* Query-string building as a state machine: a queryParams object of at    *)
(* most MaxParams entries with distinct keys, in some insertion order, is  *)
(* turned into the query string by the loaded draft.                       *)

MaxParams == 3

QueryKeys == {<<"a">>, <<"b">>, <<"B">>, <<"a", "b">>}

QueryValues ==
  { StringValue(<<"1">>), StringValue(<<"2">>),
    ArrayValue(<< <<"1">>, <<"x", " ", "y">> >>), NullValue }

QueryEntries == [key : QueryKeys, value : QueryValues]

\* Objects: entry sequences without a repeated key.
QueryObjects ==
  UNION { { obj \in [1..n -> QueryEntries] :
              \A i, j \in 1..n : i # j => obj[i].key # obj[j].key }
          : n \in 0..MaxParams }

QueryInit ==
  /\ RiskIdle
  /\ SettingsIdle
  /\ ConnectIdle
  /\ TradeIdle
  /\ SignIdle
  /\ ClientIdle
  /\ draft \in Drafts
  /\ queryParams \in QueryObjects
  /\ queryString = NotBuilt

\* privateRequest lines 100-105 build the string inline.
BuildInline ==
  /\ draft = "draft1"
  /\ queryString = NotBuilt
  /\ queryString' = inlineQueryString(queryParams)
  /\ UNCHANGED <<draft, queryParams>>
  /\ UNCHANGED exceptQuery

\* privateRequest line 643 calls buildQueryString.
BuildQueryString ==
  /\ draft = "draft2"
  /\ queryString = NotBuilt
  /\ queryString' = buildQueryString(queryParams)
  /\ UNCHANGED <<draft, queryParams>>
  /\ UNCHANGED exceptQuery

QueryNext == BuildInline \/ BuildQueryString

SpecQuery == QueryInit /\ [][QueryNext]_vars

\* The same object with its entries inserted in another order.
Reorderings(obj) ==
  { other \in [1..Len(obj) -> {obj[i] : i \in 1..Len(obj)}] :
      \A i, j \in 1..Len(obj) : i # j => other[i] # other[j] }

\* C7: the query string built depends only on the (key, value) pairs, not
\* on the insertion order of the keys, and {b:2, a:1} gives a=1&b=2.
C7_OrderIndependent ==
  queryString # NotBuilt =>
    /\ \A other \in Reorderings(queryParams) :
         queryStringOf(draft, other) = queryString
    /\ queryParams = << [key |-> <<"b">>, value |-> StringValue(<<"2">>)],
                        [key |-> <<"a">>, value |-> StringValue(<<"1">>)] >>
         => queryString = <<"a", "=", "1", "&", "b", "=", "2">>

\* C7 witness: {b:2, a:1}, keys inserted in descending order, has been built
\* into a=1&b=2.
C7_Witness ==
  /\ queryParams = << [key |-> <<"b">>, value |-> StringValue(<<"2">>)],
                      [key |-> <<"a">>, value |-> StringValue(<<"1">>)] >>
  /\ queryString = <<"a", "=", "1", "&", "b", "=", "2">>

-----------------------------------------------------------------------------
(* Private requests as a state machine: the callers of the service issue   *)
(* privateRequest calls one after another (each is awaited), the clock     *)
(* advances at any time, and axios resolves or rejects the pending call.   *)

MaxRequests == 2
MaxClockSeconds == 10

Secrets == {<<"s1">>, <<"s2">>}

Chars(word) ==
  CASE word = "contract" -> <<"c", "o", "n", "t", "r", "a", "c", "t">>
    [] word = "limit"    -> <<"l", "i", "m", "i", "t">>
    [] word = "BTC_USDT" -> <<"B", "T", "C", "_", "U", "S", "D", "T">>
    [] word = "50"       -> <<"5", "0">>

\* getBalance, line 198.
GetAccounts ==
  [ method |-> <<"GET">>, endpoint |-> <<"/futures/usdt/accounts">>,
    queryParams |-> <<>>, body |-> NullBody ]

\* getTradeHistory, lines 498-509: { limit } and then contract.
GetTrades ==
  [ method |-> <<"GET">>, endpoint |-> <<"/futures/usdt/my_trades">>,
    queryParams |-> << [key |-> Chars("limit"), value |-> StringValue(Chars("50"))],
                       [key |-> Chars("contract"),
                        value |-> StringValue(Chars("BTC_USDT"))] >>,
    body |-> NullBody ]

\* openMarketOrder, lines 353-365, with the contract, size, price and tif
\* fields of the order.
PlaceOrder ==
  [ method |-> <<"POST">>, endpoint |-> <<"/futures/usdt/orders">>,
    queryParams |-> <<>>,
    body |-> ObjectBody(<< [key |-> <<"contract">>, value |-> <<"\"BTC_USDT\"">>],
                           [key |-> <<"size">>, value |-> <<"1">>],
                           [key |-> <<"price">>, value |-> <<"\"0\"">>],
                           [key |-> <<"tif">>, value |-> <<"\"ioc\"">>] >>) ]

PrivateCalls == {GetAccounts, GetTrades, PlaceOrder}

SignInit ==
  /\ RiskIdle
  /\ SettingsIdle
  /\ ConnectIdle
  /\ TradeIdle
  /\ ClientIdle
  /\ draft \in Drafts
  /\ queryParams = <<>>
  /\ queryString = NotBuilt
  /\ apiSecret \in Secrets
  /\ clock = 9500
  /\ pc = "idle"
  /\ sent = <<>>
  /\ outcome = "none"
  /\ log = <<>>

\* Time passes.
Tick ==
  /\ (clock + 500) \div 1000 <= MaxClockSeconds
  /\ clock' = clock + 500
  /\ UNCHANGED <<apiSecret, pc, sent, outcome, log>>
  /\ UNCHANGED exceptSign

\* A caller invokes privateRequest; it runs up to the axios call and awaits.
Send ==
  /\ pc = "idle"
  /\ Len(sent) < MaxRequests
  /\ \E call \in PrivateCalls :
       LET p == privateRequest(draft, apiSecret, clock, call)
       IN  /\ sent' = Append(sent, [ call |-> call, calledAt |-> clock,
                                     axios |-> p.axios, signed |-> p.signed,
                                     prehash |-> p.prehash ])
           /\ log' = log \o privateRequestLog(draft, p)
  /\ pc' = "awaiting"
  /\ UNCHANGED <<apiSecret, clock, outcome>>
  /\ UNCHANGED exceptSign

\* The exchange's answers: an accepted request, and a rejected one.
Accepted ==
  [ status |-> <<"200">>, data |-> <<"[", "]">>, headers |-> <<"{", "}">> ]
Refused ==
  [ status |-> <<"400">>, data |-> <<"{", "\"label\":\"INVALID_KEY\"", "}">>,
    headers |-> <<"{", "}">> ]

\* What axios rejects with when the exchange refused the request.
RequestFailed ==
  [ message |-> <<"Request failed with status code ", "400">>, response |-> Refused ]

\* axios resolves: privateRequest logs the response and returns
\* response.data (lines 142-147 and 673-678).
Resolve ==
  /\ pc = "awaiting"
  /\ pc' = "idle"
  /\ outcome' = "returned"
  /\ log' = log \o responseLog(draft, Accepted)
  /\ UNCHANGED <<apiSecret, clock, sent>>
  /\ UNCHANGED exceptSign

\* axios rejects: privateRequest logs and rethrows (lines 148-155, 679-685).
Reject ==
  /\ pc = "awaiting"
  /\ pc' = "idle"
  /\ outcome' = "thrown"
  /\ log' = log \o errorLog(draft, RequestFailed)
  /\ UNCHANGED <<apiSecret, clock, sent>>
  /\ UNCHANGED exceptSign

SignNext == Tick \/ Send \/ Resolve \/ Reject

SpecSign == SignInit /\ [][SignNext]_vars

\* The signature of the arguments a, under secret s.
SignatureOf(s, a) ==
  generateSignature(s, a.method, a.resourcePath, a.queryString, a.bodyString,
                    a.timestamp)

\* Other values each argument of generateSignature could have had.
OtherMethods == {<<"GET">>, <<"POST">>, <<"DELETE">>}
OtherPaths == {resourcePathOf(draft, c.endpoint) : c \in PrivateCalls}
OtherQueryStrings ==
  {queryStringOf(draft, c.queryParams) : c \in PrivateCalls} \cup {<<"a", "=", "1">>}
OtherBodyStrings == {bodyStringOf(c.body) : c \in PrivateCalls} \cup {<<"{", "}">>}
OtherTimestamps == {timestampOf(1000 * t) : t \in 8..12}

Occurrences(s, piece) == Cardinality({k \in 1..Len(s) : s[k] = piece})

\* C9: the signed string is exactly method, resource path, query string,
\* hex SHA-512 of the body string (of the empty string when there is no
\* body) and timestamp, in that order, joined by single newlines; the
\* resource path is /api/v4 followed by the endpoint, so the prefix is there
\* exactly once; and SIGN is the HMAC-SHA512 of that string under the secret.
C9_SignedString ==
  \A i \in 1..Len(sent) :
    LET r == sent[i]
        c == r.call
        body == IF c.body.kind = "null" THEN <<>> ELSE JSONstringify(c.body)
    IN  /\ r.prehash = c.method \o <<"\n", "/api/v4">> \o c.endpoint \o <<"\n">>
                       \o queryStringOf(draft, c.queryParams) \o <<"\n">>
                       \o Sha512Hex(body) \o <<"\n">> \o ToDigits(r.calledAt \div 1000)
        /\ Occurrences(r.prehash, "\n") = 4
        /\ Occurrences(r.prehash, "/api/v4") = 1
        /\ r.axios.headers.SIGN = HmacSha512Hex(apiSecret, r.prehash)
        /\ (c = GetAccounts /\ r.calledAt = 9500) =>
             r.prehash = <<"GET", "\n", "/api/v4", "/futures/usdt/accounts", "\n",
                           "\n", "sha512(", ")", "\n", "9">>

\* C9 witness: a request without query and body was signed in second 9, and
\* then a request with a body.
C9_Witness ==
  /\ Len(sent) = 2
  /\ sent[1].call = GetAccounts /\ sent[1].calledAt = 9500
  /\ sent[2].call = PlaceOrder

\* The last line of a prehash string.
LastField(s) ==
  LET last == CHOOSE k \in 1..Len(s) :
                s[k] = "\n" /\ \A l \in (k + 1)..Len(s) : s[l] # "\n"
  IN  SubSeq(s, last + 1, Len(s))

\* C10: each request carries the timestamp of its own call: the Timestamp
\* header is floor(Date.now() / 1000) of the clock read in that call, it is
\* the timestamp that was signed, and a request made in a later second never
\* carries the timestamp or the signature of an earlier one.
C10_FreshTimestamp ==
  /\ \A i \in 1..Len(sent) :
       LET r == sent[i]
       IN  /\ r.axios.headers.Timestamp = ToDigits(r.calledAt \div 1000)
           /\ r.signed.timestamp = r.axios.headers.Timestamp
           /\ LastField(r.prehash) = r.axios.headers.Timestamp
           /\ r.axios.headers.SIGN = HmacSha512Hex(apiSecret, r.prehash)
           /\ r.calledAt = 10500 => r.axios.headers.Timestamp = <<"1", "0">>
  /\ \A i, j \in 1..Len(sent) :
       sent[i].calledAt \div 1000 < sent[j].calledAt \div 1000 =>
         /\ sent[j].axios.headers.Timestamp # sent[i].axios.headers.Timestamp
         /\ sent[j].axios.headers.SIGN # sent[i].axios.headers.SIGN

\* C10 witness: the same call was made at 9.5 s and again at 10.5 s and the
\* second request carries timestamp 10.
C10_Witness ==
  \E i, j \in 1..Len(sent) :
    /\ sent[i].call = sent[j].call
    /\ sent[i].calledAt = 9500 /\ sent[j].calledAt = 10500
    /\ sent[j].axios.headers.Timestamp = <<"1", "0">>

-----------------------------------------------------------------------------
(* What is signed is what is sent.                                         *)

\* The query part of a URL: what follows the "?", or the empty string.
QueryOfUrl(url) ==
  IF \E k \in 1..Len(url) : url[k] = "?"
  THEN SubSeq(url, (CHOOSE k \in 1..Len(url) : url[k] = "?") + 1, Len(url))
  ELSE <<>>

\* The hash field (the fourth line) of a prehash string.
HashField(s) ==
  LET nl == {k \in 1..Len(s) : s[k] = "\n"}
      third == CHOOSE k \in nl : Cardinality({l \in nl : l < k}) = 2
      fourth == CHOOSE k \in nl : Cardinality({l \in nl : l < k}) = 3
  IN  SubSeq(s, third + 1, fourth - 1)

\* C11: for every private request the body on the wire is the body string
\* whose SHA-512 went into the signed string (no data when that string is
\* empty), and the query part of the request URL is the query string that
\* was signed.
C11_SignedIsSent ==
  \A i \in 1..Len(sent) :
    LET r == sent[i]
    IN  /\ r.axios.data = (IF r.signed.bodyString = <<>> THEN NoData
                           ELSE r.signed.bodyString)
        /\ HashField(r.prehash) = Sha512Hex(r.signed.bodyString)
        /\ QueryOfUrl(r.axios.url) = r.signed.queryString
        /\ r.call = PlaceOrder =>
             r.axios.data = <<"{", "\"", "contract", "\"", ":", "\"BTC_USDT\"", ",",
                              "\"", "size", "\"", ":", "1", ",",
                              "\"", "price", "\"", ":", "\"0\"", ",",
                              "\"", "tif", "\"", ":", "\"ioc\"", "}">>
        /\ r.call = GetTrades =>
             QueryOfUrl(r.axios.url) =
               Chars("contract") \o <<"=">> \o Chars("BTC_USDT") \o <<"&">>
               \o Chars("limit") \o <<"=">> \o Chars("50")

\* C11 witness: a request with a body and a request with a query string
\* were both sent.
C11_Witness ==
  /\ Len(sent) = 2
  /\ sent[1].call = PlaceOrder /\ sent[1].axios.data # NoData
  /\ sent[2].call = GetTrades /\ QueryOfUrl(sent[2].axios.url) # <<>>

-----------------------------------------------------------------------------
(* gateio.service.js: setLeverage.  The operation awaits one private       *)
(* request at a time; the exchange answers it and the operation runs on to *)
(* its next request or to its end.                                         *)

\* What axios gets back for a request.
OkResponse == [kind |-> "ok", status |-> 200, label |-> "", message |-> <<>>]
ErrorResponse(label, message) ==
  [kind |-> "error", status |-> 400, label |-> label, message |-> message]
NoResponse == [kind |-> "none", status |-> 0, label |-> "", message |-> <<>>]

\* The error axios rejects with: for an error response its message is axios's
\* own text and the exchange's answer is under error.response.data.
AxiosError(response) ==
  [ message  |-> IF response.kind = "error"
                 THEN <<"Request failed with status code ", "400">>
                 ELSE <<"Network Error">>,
    response |-> response ]

\* text.includes(piece)
Includes(text, piece) == \E k \in 1..Len(text) : text[k] = piece

\* The test of setLeverage's catch block: draft 1 line 327,
\* error.response?.data?.label === 'INVALID_PARAM_VALUE'; draft 2 line 874,
\* error.message?.includes('leverage not modified').
alreadySet(d, error) ==
  IF d = "draft1"
  THEN error.response.kind = "error" /\ error.response.label = "INVALID_PARAM_VALUE"
  ELSE Includes(error.message, "leverage not modified")

Contract == <<"BTC_USDT">>

\* The private request for a leverage value: draft 1 passes it as a query
\* parameter (lines 308-320), draft 2 in the body (lines 862-869).
leverageRequest(d, path, leverage, mode) ==
  [ method      |-> <<"POST">>,
    endpoint    |-> <<"/futures/usdt">> \o path \o Contract \o <<"/leverage">>,
    queryParams |-> IF d = "draft1"
                    THEN << [key |-> <<"leverage">>, value |-> ToDigits(leverage)] >>
                    ELSE <<>>,
    body        |-> IF d = "draft1" THEN <<>>
                    ELSE << [key |-> <<"leverage">>, value |-> ToDigits(leverage)] >>
                         \o (IF mode = "" THEN <<>>
                             ELSE << [key |-> <<"mode">>, value |-> <<mode>>] >>) ]

\* requests and responses are the private requests this call has made and
\* the answers it has got, oldest first; thrown holds the error the call
\* throws.
Awaiting(leverage, pcNext, request, calls) ==
  [ kind |-> "setLeverage", leverage |-> leverage, pc |-> pcNext,
    request |-> request, lastResponse |-> NoResponse, answered |-> FALSE,
    requests |-> <<request>>, responses |-> <<>>, thrown |-> <<>>,
    result |-> "pending", calls |-> calls ]

\* setLeverage up to its first await (lines 303-320 and 856-869).
setLeverageStart(d, mode, leverage, calls) ==
  IF d = "draft1"
  THEN IF mode = "dual_mode"
       THEN Awaiting(leverage, "dual",
                     leverageRequest(d, <<"/dual_mode/positions/">>, leverage, ""), calls)
       ELSE Awaiting(leverage, "single",
                     leverageRequest(d, <<"/positions/">>, leverage, ""), calls)
  ELSE IF mode = "dual_mode"
       THEN Awaiting(leverage, "long",
                     leverageRequest(d, <<"/positions/">>, leverage, "long"), calls)
       ELSE Awaiting(leverage, "single",
                     leverageRequest(d, <<"/positions/">>, leverage, ""), calls)

\* The next private request of the call is sent and awaited.
ThenAwait(o, pcNext, request) ==
  [o EXCEPT !.pc = pcNext, !.request = request, !.requests = Append(@, request)]

\* setLeverage that sends the regular request after the dual-mode request
\* whatever the answer to it was.
setLeverageResumeBoth(d, o, response) ==
  LET seen    == [o EXCEPT !.lastResponse = response, !.answered = TRUE,
                           !.responses = Append(@, response)]
      success == [seen EXCEPT !.pc = "done", !.result = "true"]
      caught  == IF alreadySet(d, AxiosError(response))
                 THEN success
                 ELSE [seen EXCEPT !.pc = "done", !.result = "thrown",
                                   !.thrown = <<AxiosError(response)>>]
  IN  IF d = "draft1"
      THEN IF o.pc = "dual"
           THEN ThenAwait(seen, "regular",
                          leverageRequest(d, <<"/positions/">>, o.leverage, ""))
           ELSE IF response.kind = "ok" THEN success ELSE caught
      ELSE IF o.pc = "long"
           THEN IF response.kind = "ok"
                THEN ThenAwait(seen, "short",
                               leverageRequest(d, <<"/positions/">>, o.leverage, "short"))
                ELSE caught
           ELSE IF response.kind = "ok" THEN success ELSE caught

\* setLeverage from the answer to its pending request to its next await or
\* its end (lines 312-332 and 863-880).
setLeverageResume(d, o, response) ==
  LET seen    == [o EXCEPT !.lastResponse = response, !.answered = TRUE,
                           !.responses = Append(@, response)]
      success == [seen EXCEPT !.pc = "done", !.result = "true"]
      caught  == IF alreadySet(d, AxiosError(response))
                 THEN success
                 ELSE [seen EXCEPT !.pc = "done", !.result = "thrown",
                                   !.thrown = <<AxiosError(response)>>]
  IN  IF d = "draft1"
      THEN IF o.pc = "dual"
           THEN IF response.kind = "ok" THEN success
                ELSE ThenAwait(seen, "regular",
                               leverageRequest(d, <<"/positions/">>, o.leverage, ""))
           ELSE IF response.kind = "ok" THEN success ELSE caught
      ELSE IF o.pc = "long"
           THEN IF response.kind = "ok"
                THEN ThenAwait(seen, "short",
                               leverageRequest(d, <<"/positions/">>, o.leverage, "short"))
                ELSE caught
           ELSE IF response.kind = "ok" THEN success ELSE caught

\* The error responses with which the exchange says the leverage already has
\* the requested value.  The repository does not fix the label of such a
\* response; draft 1 expects INVALID_PARAM_VALUE.
NotModifiedResponses ==
  { ErrorResponse(label, <<"leverage not modified">>)
      : label \in {"INVALID_PARAM_VALUE", "NO_CHANGE"} }

\* The error responses with which the exchange rejects a request; the label
\* INVALID_PARAM_VALUE is the exchange's label for any parameter value it
\* does not take.
Rejections ==
  { ErrorResponse("INVALID_REQUEST_BODY", <<"invalid request">>),
    ErrorResponse("INVALID_PARAM_VALUE", <<"invalid parameter value">>) }

\* The ways a private request fails: the exchange rejects it, or no answer
\* arrives.
Failures == Rejections \cup {NoResponse}

\* The answers the exchange can give to a leverage request: it applies the
\* value, reports that the value is already set, rejects the request, or
\* does not answer at all.
LeverageAnswers(x, request, leverage) ==
  {OkResponse, NoResponse} \cup Rejections
  \cup (IF x.leverage = leverage THEN NotModifiedResponses ELSE {})

-----------------------------------------------------------------------------
(* setLeverage as a state machine.                                         *)

MaxLeverageCalls == 2

Leverages == {10, 20}

ClientInit ==
  /\ RiskIdle
  /\ SettingsIdle
  /\ ConnectIdle
  /\ TradeIdle
  /\ SignIdle
  /\ draft \in Drafts
  /\ queryParams = <<>>
  /\ queryString = NotBuilt
  /\ positionMode \in {"single_mode", "dual_mode"}
  /\ exchange = [leverage |-> 0]
  /\ op = NoOp

\* A caller invokes setLeverage(symbol, leverage).
CallSetLeverage ==
  /\ op.pc = "done"
  /\ op.calls < MaxLeverageCalls
  /\ \E leverage \in Leverages :
       op' = setLeverageStart(draft, positionMode, leverage, op.calls + 1)
  /\ UNCHANGED <<positionMode, exchange>>
  /\ UNCHANGED exceptClient

\* The exchange answers the pending leverage request and setLeverage resumes.
AnswerLeverage ==
  /\ op.kind = "setLeverage" /\ op.pc # "done"
  /\ \E response \in LeverageAnswers(exchange, op.request, op.leverage) :
       /\ exchange' = IF response.kind = "ok"
                      THEN [exchange EXCEPT !.leverage = op.leverage]
                      ELSE exchange
       /\ op' = setLeverageResume(draft, op, response)
  /\ UNCHANGED positionMode
  /\ UNCHANGED exceptClient

LeverageNext == CallSetLeverage \/ AnswerLeverage

SpecLeverage == ClientInit /\ [][LeverageNext]_vars

\* C12: when the exchange answered the last request of a setLeverage call
\* with a "leverage not modified" error response, the call returned true;
\* so a second call with the same value does not throw on that answer.
C12_AlreadySetIsSuccess ==
  ( /\ op.kind = "setLeverage" /\ op.pc = "done"
    /\ op.lastResponse \in NotModifiedResponses )
  => op.result = "true"

-----------------------------------------------------------------------------
(* gateio.service.js and part_001: the three order operations.  Order      *)
(* quantities and sizes are in units of 1e-7 contract, prices in cents.    *)

WholeContract == 10000000

\* parseFloat(Math.abs(quantity).toFixed(6)): rounded to six decimals.
toFixed6(quantity) == 10 * ((Abs(quantity) + 5) \div 10)

\* Math.abs(Math.floor(quantity)) for quantity >= 0.
floorContracts(quantity) == WholeContract * (Abs(quantity) \div WholeContract)

\* The magnitude each draft gives the size: lines 349-351, part_001 lines
\* 403-405, draft 2 line 893.
sizeMagnitude(d, quantity) ==
  IF d = "draft1" THEN toFixed6(quantity)
  ELSE IF d = "part_001" THEN floorContracts(quantity)
  ELSE Abs(quantity)

\* The entry size of openMarketOrder: draft 1 and part_001 test
\* direction === 'LONG', draft 2 tests side === 'Buy'.
entrySize(d, side, quantity, direction) ==
  IF d = "draft2"
  THEN (IF side = "Buy" THEN sizeMagnitude(d, quantity) ELSE -sizeMagnitude(d, quantity))
  ELSE (IF direction = "LONG" THEN sizeMagnitude(d, quantity)
        ELSE -sizeMagnitude(d, quantity))

\* The closing size of setTakeProfitLimit and setStopLossLimit (lines
\* 393-395, 432-434, 928, 962).
closeSize(d, quantity, direction) ==
  IF direction = "LONG" THEN -sizeMagnitude(d, quantity) ELSE sizeMagnitude(d, quantity)

\* price.toString() for a price given in cents: no trailing zeros.
NumberToString(cents) ==
  LET whole == ToDigits(cents \div 100)
      frac  == cents % 100
  IN  IF frac = 0 THEN whole
      ELSE IF frac % 10 = 0 THEN whole \o <<".">> \o ToDigits(frac \div 10)
      ELSE whole \o <<".">> \o ToDigits(frac \div 10) \o ToDigits(frac % 10)

\* The order of openMarketOrder (lines 353-360, 895-901); text is the prefix
\* put before Date.now().
marketOrder(d, symbol, side, quantity, direction) ==
  [ contract    |-> formatSymbol(d, symbol),
    size        |-> entrySize(d, side, quantity, direction),
    price       |-> <<"0">>,
    tif         |-> "ioc",
    reduce_only |-> IF d = "draft2" THEN "absent" ELSE "false",
    text        |-> IF d = "draft2" THEN "t-" ELSE "t-entry-" ]

\* The order of setTakeProfitLimit (lines 397-404, 930-937).
takeProfitOrder(d, symbol, price, quantity, direction) ==
  [ contract    |-> formatSymbol(d, symbol),
    size        |-> closeSize(d, quantity, direction),
    price       |-> NumberToString(price),
    tif         |-> "gtc",
    reduce_only |-> "true",
    text        |-> IF d = "draft2" THEN "tp-" ELSE "t-tp-" ]

\* The trigger rule with the two directions exchanged.
triggerRuleSwapped(direction) == IF direction = "LONG" THEN 1 ELSE 2

\* trigger.rule (lines 449, 977): 2 is <=, 1 is >=.
triggerRule(direction) == IF direction = "LONG" THEN 2 ELSE 1

\* The price order of setStopLossLimit (lines 436-451, 964-979).
stopLossOrder(d, symbol, price, quantity, direction) ==
  [ initial |-> [ contract    |-> formatSymbol(d, symbol),
                  size        |-> closeSize(d, quantity, direction),
                  price       |-> NumberToString(price),
                  tif         |-> "gtc",
                  reduce_only |-> "true",
                  text        |-> IF d = "draft2" THEN "sl-" ELSE "t-sl-" ],
    trigger |-> [ strategy_type |-> 0,
                  price_type    |-> 1,
                  price         |-> NumberToString(price),
                  rule          |-> triggerRule(direction) ] ]

\* The one private request of an order operation (lines 365, 406, 455).
orderRequest(kind, d, symbol, side, price, quantity, direction) ==
  [ method |-> <<"POST">>,
    endpoint |-> IF kind = "setStopLossLimit" THEN <<"/futures/usdt/price_orders">>
                 ELSE <<"/futures/usdt/orders">>,
    body |-> IF kind = "openMarketOrder"
             THEN marketOrder(d, symbol, side, quantity, direction)
             ELSE IF kind = "setTakeProfitLimit"
             THEN takeProfitOrder(d, symbol, price, quantity, direction)
             ELSE stopLossOrder(d, symbol, price, quantity, direction) ]

\* An order operation up to its privateRequest call; requests are the private
\* requests the call has made.
orderOperation(kind, d, symbol, side, price, quantity, direction, calls) ==
  [ kind |-> kind, pc |-> "await", result |-> "pending", calls |-> calls,
    symbol |-> symbol, side |-> side, price |-> price, quantity |-> quantity,
    direction |-> direction,
    request |-> orderRequest(kind, d, symbol, side, price, quantity, direction),
    requests |-> << orderRequest(kind, d, symbol, side, price, quantity, direction) >>,
    returned |-> [orderId |-> <<>>], received |-> <<>>, thrown |-> <<>> ]

\* What the operation returns for the response (lines 367-373, 408-411,
\* 457-460): response.id?.toString() || fallback, and the quantity or price.
orderReturn(d, o, id) ==
  LET fallback == IF d # "draft2" \/ o.kind = "openMarketOrder" THEN <<>>
                  ELSE IF o.kind = "setTakeProfitLimit" THEN <<"TP_LIMIT">>
                  ELSE <<"SL_TRIGGERED">>
      orderId  == IF id = 0 THEN fallback ELSE ToDigits(id)
  IN  IF o.kind = "openMarketOrder"
      THEN [orderId |-> orderId, quantity |-> Abs(o.request.body.size)]
      ELSE [orderId |-> orderId, price |-> o.price]

-----------------------------------------------------------------------------
(* The order operations as a state machine: an operation is called, sends  *)
(* its request and awaits; the exchange accepts or rejects it.             *)

MaxOrderCalls == 1

Sides == {"Buy", "Sell"}
PositionDirections == {"LONG", "SHORT"}
OrderPrices == {3329, 10050}
BTCUSDT == <<"B", "T", "C", "U", "S", "D", "T">>

\* Quantities the sizer of each draft hands over: whole contracts for the
\* integer-contract draft part_001, decimals for the others.
OrderQuantities(d) ==
  IF d = "part_001" THEN {WholeContract, 3 * WholeContract}
  ELSE {10, 2153084, 3 * WholeContract}

OrdersInit ==
  /\ RiskIdle
  /\ SettingsIdle
  /\ ConnectIdle
  /\ TradeIdle
  /\ SignIdle
  /\ draft \in ServiceDrafts
  /\ queryParams = <<>>
  /\ queryString = NotBuilt
  /\ positionMode = "single_mode"
  /\ exchange = [leverage |-> 0]
  /\ op = NoOp

CallOrder(kind) ==
  /\ op.pc = "done"
  /\ op.calls < MaxOrderCalls
  /\ \E side \in Sides, direction \in PositionDirections,
        price \in OrderPrices, quantity \in OrderQuantities(draft) :
       op' = orderOperation(kind, draft, BTCUSDT, side, price, quantity, direction,
                            op.calls + 1)
  /\ UNCHANGED <<positionMode, exchange>>
  /\ UNCHANGED exceptClient

CallOpenMarketOrder == CallOrder("openMarketOrder")
CallSetTakeProfitLimit == CallOrder("setTakeProfitLimit")
CallSetStopLossLimit == CallOrder("setStopLossLimit")

IsOrderOperation ==
  op.kind \in {"openMarketOrder", "setTakeProfitLimit", "setStopLossLimit"}

\* The exchange accepts the order, with or without an id in its response.
AcceptOrder ==
  /\ IsOrderOperation /\ op.pc = "await"
  /\ \E id \in {0, 7} :
       op' = [op EXCEPT !.pc = "done", !.result = "returned",
                        !.returned = orderReturn(draft, op, id)]
  /\ UNCHANGED <<positionMode, exchange>>
  /\ UNCHANGED exceptClient

\* What the catch block of an operation does with the error of its request
\* (lines 374-381, 412-415, 461-464, 493-496): it logs and rethrows.
rethrow(o, error) ==
  [o EXCEPT !.pc = "done", !.result = "thrown", !.received = <<error>>,
            !.thrown = <<error>>]

\* The request fails and the operation's catch block runs.
RejectOrder ==
  /\ IsOrderOperation /\ op.pc = "await"
  /\ \E response \in Failures : op' = rethrow(op, AxiosError(response))
  /\ UNCHANGED <<positionMode, exchange>>
  /\ UNCHANGED exceptClient

OrdersNext ==
  \/ CallOpenMarketOrder
  \/ CallSetTakeProfitLimit
  \/ CallSetStopLossLimit
  \/ AcceptOrder
  \/ RejectOrder

SpecOrders == OrdersInit /\ [][OrdersNext]_vars

\* One step of the quantity precision of the loaded draft's contracts.
QuantityStep == IF draft = "part_001" THEN WholeContract ELSE 10

Sign(n) == IF n > 0 THEN 1 ELSE IF n < 0 THEN -1 ELSE 0

C15_StopLossTrigger ==
  op.kind = "setStopLossLimit" =>
    LET order == op.request.body
    IN  /\ op.request.endpoint = <<"/futures/usdt/price_orders">>
        /\ order.initial.reduce_only = "true"
        /\ order.trigger.price_type = 1
        /\ order.trigger.price = order.initial.price
        /\ op.direction = "LONG" => order.trigger.rule = 2 /\ order.initial.size < 0
        /\ op.direction = "SHORT" => order.trigger.rule = 1 /\ order.initial.size > 0
        /\ op.price = 10050 => order.trigger.price = <<"1", "0", "0", ".", "5">>

\* C15 witness: a stop-loss for a LONG position at 100.5 was placed with
\* rule 2 and accepted.
C15_Witness ==
  /\ op.kind = "setStopLossLimit" /\ op.result = "returned"
  /\ op.direction = "LONG" /\ op.price = 10050
  /\ op.request.body.trigger.rule = 2
  /\ op.request.body.initial.size < 0

-----------------------------------------------------------------------------
(* gateio.service.js: getOpenPositions and hasOpenPosition.  Position      *)
(* sizes are in units of 1e-6 contract; the exchange sends a size as a     *)
(* number, as a decimal string, or not at all.                             *)

\* A decimal string that parses to the number n.
NumericString(n) == [t |-> "string", v |-> n]

\* parseFloat(pos.size || '0'): 0, '' and undefined are falsy.
parseSize(size) ==
  IF size.t = "undefined" THEN 0
  ELSE IF size.t = "number" /\ size.v = 0 THEN 0
  ELSE size.v

\* A filter that keeps the long positions only.
isOpenLongOnly(pos) == parseSize(pos.size) > 0

\* The filter of lines 478 and 1005: parseFloat(pos.size || '0') !== 0.
isOpen(pos) == parseSize(pos.size) # 0

\* The mapping of lines 479-492 and 1006-1021 (symbol, contract, side, size
\* and mode of the returned object).
toPosition(d, pos) ==
  LET size == parseSize(pos.size)
  IN  [ symbol   |-> unformatSymbol(d, pos.contract),
        contract |-> pos.contract,
        side     |-> IF size > 0 THEN "Buy" ELSE "Sell",
        size     |-> Abs(size),
        mode     |-> IF pos.mode = "" THEN "single" ELSE pos.mode ]

\* positions.filter(...).map(...)
openPositionsOf(d, positions) ==
  LET kept == SelectSeq(positions, isOpen)
  IN  [k \in 1..Len(kept) |-> toPosition(d, kept[k])]

\* getOpenPositions(symbol) and hasOpenPosition(symbol) up to the await of
\* the positions request (lines 470-474, 497-498); symbol is <<>> for null.
positionsOperation(kind, d, symbol, calls) ==
  [ kind |-> kind, pc |-> "await", result |-> "pending", calls |-> calls,
    symbol |-> symbol,
    request |->
      [ method |-> <<"GET">>, endpoint |-> <<"/futures/usdt/positions">>,
        queryParams |-> IF symbol # <<>>
                        THEN << [key |-> Chars("contract"),
                                 value |-> StringValue(formatSymbol(d, symbol))] >>
                        ELSE <<>> ],
    response |-> <<>>, returned |-> <<>>, received |-> <<>>, thrown |-> <<>> ]

\* The operation from the response to its return.
positionsResume(d, o, response) ==
  LET positions == openPositionsOf(d, response)
  IN  [o EXCEPT !.pc = "done", !.result = "returned", !.response = response,
                !.returned = IF o.kind = "hasOpenPosition"
                             THEN Len(positions) > 0
                             ELSE positions]

-----------------------------------------------------------------------------
(* Reading positions as a state machine.                                   *)

MaxPositions == 2
MaxPositionCalls == 1

ExchangeContracts ==
  { <<"B", "T", "C", "_", "U", "S", "D", "T">>, <<"A", "D", "A", "_", "U", "S", "D", "T">> }

ExchangeSizes ==
  { JsNumber(0), JsNumber(3000000), JsNumber(-2000000),
    NumericString(0), NumericString(-215308), JsUndefined }

ExchangePositions ==
  [contract : ExchangeContracts, size : ExchangeSizes, mode : {""}]

PositionsInit ==
  /\ RiskIdle
  /\ SettingsIdle
  /\ ConnectIdle
  /\ TradeIdle
  /\ SignIdle
  /\ draft \in Drafts
  /\ queryParams = <<>>
  /\ queryString = NotBuilt
  /\ positionMode = "single_mode"
  /\ \E n \in 0..MaxPositions :
       \E positions \in [1..n -> ExchangePositions] :
         exchange = [leverage |-> 0, positions |-> positions]
  /\ op = NoOp

CallPositions(kind) ==
  /\ op.pc = "done"
  /\ op.calls < MaxPositionCalls
  /\ \E symbol \in {<<>>, BTCUSDT} :
       op' = positionsOperation(kind, draft, symbol, op.calls + 1)
  /\ UNCHANGED <<positionMode, exchange>>
  /\ UNCHANGED exceptClient

CallGetOpenPositions == CallPositions("getOpenPositions")
CallHasOpenPosition == CallPositions("hasOpenPosition")

IsPositionsOperation == op.kind \in {"getOpenPositions", "hasOpenPosition"}

\* The exchange answers with its position records: all of them, or those of
\* the requested contract.
AnswerPositions ==
  /\ IsPositionsOperation /\ op.pc = "await"
  /\ \E all \in BOOLEAN :
       LET wanted(pos) == all \/ op.symbol = <<>>
                          \/ pos.contract = formatSymbol(draft, op.symbol)
       IN  op' = positionsResume(draft, op, SelectSeq(exchange.positions, wanted))
  /\ UNCHANGED <<positionMode, exchange>>
  /\ UNCHANGED exceptClient

\* The request fails: the operation logs and rethrows (lines 493-496).
FailPositions ==
  /\ IsPositionsOperation /\ op.pc = "await"
  /\ \E response \in Failures : op' = rethrow(op, AxiosError(response))
  /\ UNCHANGED <<positionMode, exchange>>
  /\ UNCHANGED exceptClient

PositionsNext ==
  \/ CallGetOpenPositions
  \/ CallHasOpenPosition
  \/ AnswerPositions
  \/ FailPositions

SpecPositions == PositionsInit /\ [][PositionsNext]_vars

\* The exchange's numeric size of a record, read independently of the code:
\* an absent size counts as zero.
ExchangeSize(pos) == IF pos.size.t = "undefined" THEN 0 ELSE pos.size.v

\* The indices of the records of a response with non-zero size, in order.
NonZero(response) == {k \in 1..Len(response) : ExchangeSize(response[k]) # 0}

\* C16: getOpenPositions returns exactly the exchange records of non-zero
\* size, in order: each returned position has size > 0, side 'Buy' exactly
\* when the exchange size is positive and 'Sell' exactly when it is
\* negative; and hasOpenPosition is true exactly when the response holds a
\* record of non-zero size.
C16_OpenPositionsOnly ==
  (IsPositionsOperation /\ op.result = "returned") =>
    LET open == NonZero(op.response)
        nth(k) == CHOOSE i \in open : Cardinality({j \in open : j < i}) = k - 1
    IN  IF op.kind = "hasOpenPosition"
        THEN op.returned = (open # {})
        ELSE /\ Len(op.returned) = Cardinality(open)
             /\ \A k \in 1..Len(op.returned) :
                  LET p == op.returned[k]
                      e == op.response[nth(k)]
                  IN  /\ p.size > 0
                      /\ p.contract = e.contract
                      /\ p.size = Abs(ExchangeSize(e))
                      /\ (p.side = "Buy") <=> (ExchangeSize(e) > 0)
                      /\ (p.side = "Sell") <=> (ExchangeSize(e) < 0)

\* C16 witness: the exchange answered with a flat record and a short
\* position, and getOpenPositions returned the short position alone.
C16_Witness ==
  /\ op.kind = "getOpenPositions" /\ op.result = "returned"
  /\ Len(op.response) = 2 /\ Len(op.returned) = 1
  /\ ExchangeSize(op.response[1]) = 0
  /\ ExchangeSize(op.response[2]) < 0
  /\ op.returned[1].side = "Sell"

-----------------------------------------------------------------------------
(* Symbol translation as a state machine: a symbol is formatted and the    *)
(* result unformatted, or a contract name unformatted and the result       *)
(* formatted.                                                              *)

MaxChunks == 3

\* The characters of a chunk of a name.
ChunkChars(chunk) ==
  CASE chunk = "USDT" -> USDT
    [] chunk = "USD"  -> <<"U", "S", "D">>
    [] OTHER          -> <<chunk>>

\* The strings made of at most n chunks out of the given ones.
Strings(chunks, n) ==
  UNION { { Join([i \in 1..k |-> ChunkChars(name[i])], <<>>) : name \in [1..k -> chunks] }
          : k \in 0..n }

\* Symbols as a caller may pass them.
Symbols == Strings({"B", "T", "_", "USD", "USDT"}, MaxChunks)

\* Contract names of the exchange's USDT-settled futures: a base name, an
\* underscore, USDT.
ContractNames ==
  { base \o UnderscoreUSDT : base \in Strings({"B", "T", "USD", "USDT"}, MaxChunks - 1) \ {<<>>} }

SymbolInit ==
  /\ RiskIdle
  /\ SettingsIdle
  /\ ConnectIdle
  /\ TradeIdle
  /\ SignIdle
  /\ draft \in ServiceDrafts
  /\ queryParams = <<>>
  /\ queryString = NotBuilt
  /\ positionMode = "single_mode"
  /\ exchange = [leverage |-> 0]
  /\ op = NoOp

\* formatSymbol(symbol) on the way out, unformatSymbol on the way back.
FormatThenUnformat ==
  /\ op.kind = "none"
  /\ \E symbol \in Symbols :
       op' = [ kind |-> "formatSymbol", pc |-> "done", result |-> "returned",
               calls |-> 1, input |-> symbol,
               translated |-> formatSymbol(draft, symbol),
               back |-> unformatSymbol(draft, formatSymbol(draft, symbol)) ]
  /\ UNCHANGED <<positionMode, exchange>>
  /\ UNCHANGED exceptClient

\* unformatSymbol(contract) on the way in, formatSymbol on the way back.
UnformatThenFormat ==
  /\ op.kind = "none"
  /\ \E contract \in ContractNames :
       op' = [ kind |-> "unformatSymbol", pc |-> "done", result |-> "returned",
               calls |-> 1, input |-> contract,
               translated |-> unformatSymbol(draft, contract),
               back |-> formatSymbol(draft, unformatSymbol(draft, contract)) ]
  /\ UNCHANGED <<positionMode, exchange>>
  /\ UNCHANGED exceptClient

SymbolNext == FormatThenUnformat \/ UnformatThenFormat

SpecSymbol == SymbolInit /\ [][SymbolNext]_vars

\* C17: symbol translation is reversible: unformatSymbol(formatSymbol(s)) = s
\* for every symbol s and formatSymbol(unformatSymbol(c)) = c for every
\* exchange contract name c.
C17_SymbolRoundTrip ==
  op.kind \in {"formatSymbol", "unformatSymbol"} => op.back = op.input

-----------------------------------------------------------------------------
(* settings.js as a whole: the required variables, the config object and   *)
(* its validation.  An environment variable is unset, the empty string, a  *)
(* numeric string (its value in the unit of the field), or other text.     *)

Unset == JsUndefined
EmptyString == [t |-> "empty", v |-> 0]
EnvText(word) == [t |-> "text", v |-> 0, text |-> word]

\* !process.env[name], and process.env[name] || default
Falsy(value) == value.t \in {"undefined", "empty"}

\* parseFloat / parseInt of process.env[name] || 'default'
parseEnv(value, default) ==
  IF Falsy(value) THEN JsNumber(default)
  ELSE IF value.t = "string" THEN JsNumber(value.v)
  ELSE JsNaN

\* x <= k and x > k for JavaScript numbers: false when x is NaN.
JsLeq(x, k) == x.t = "number" /\ x.v <= k
JsGt(x, k) == x.t = "number" /\ x.v > k
JsLt(x, k) == x.t = "number" /\ x.v < k

\* (process.env.GATEIO_POSITION_MODE || 'single_mode').toLowerCase()
positionModeOf(value) ==
  IF Falsy(value) THEN "single_mode"
  ELSE IF value.text = "DUAL_MODE" THEN "dual_mode"
  ELSE value.text

requiredEnvVars ==
  <<"GATEIO_API_KEY", "GATEIO_API_SECRET", "TELEGRAM_BOT_TOKEN", "TELEGRAM_CHANNEL_ID">>

\* Lines 19-60: the config object (the fields that are validated or sized
\* with).
configOf(e) ==
  [ gateio  |-> [ apiKey       |-> e.GATEIO_API_KEY,
                  apiSecret    |-> e.GATEIO_API_SECRET,
                  positionMode |-> positionModeOf(e.GATEIO_POSITION_MODE) ],
    risk    |-> [ percentage        |-> parseEnv(e.RISK_PERCENTAGE, DefaultRiskPercentage),
                  leverage          |-> parseEnv(e.LEVERAGE, DefaultLeverage),
                  takeProfitPercent |-> parseEnv(e.TAKE_PROFIT_PERCENT,
                                                 DefaultTakeProfitPercent),
                  stopLossPercent   |-> parseEnv(e.STOP_LOSS_PERCENT,
                                                 DefaultStopLossPercent) ],
    trading |-> [ maxDailyTrades   |-> parseEnv(e.MAX_DAILY_TRADES, 20),
                  maxOpenPositions |-> parseEnv(e.MAX_OPEN_POSITIONS, 3) ],
    tradingHours |-> [ startHour |-> parseEnv(e.TRADING_START_HOUR, 6),
                       endHour   |-> parseEnv(e.TRADING_END_HOUR, 22) ] ]

SettingsThrown(error) == [status |-> "thrown", error |-> error]

\* Lines 63-89: the checks in order; "" when none throws.
validateConfig(c) ==
  IF JsLeq(c.risk.percentage, 0) \/ JsGt(c.risk.percentage, 10000)
  THEN "RISK_PERCENTAGE must be between 0 and 100"
  ELSE IF JsLeq(c.risk.leverage, 0) \/ JsGt(c.risk.leverage, 100)
  THEN "LEVERAGE must be between 1 and 100"
  ELSE IF JsLeq(c.trading.maxDailyTrades, 0)
  THEN "MAX_DAILY_TRADES must be greater than 0"
  ELSE IF JsLeq(c.trading.maxOpenPositions, 0)
  THEN "MAX_OPEN_POSITIONS must be greater than 0"
  ELSE IF JsLt(c.tradingHours.startHour, 0) \/ JsGt(c.tradingHours.startHour, 23)
  THEN "TRADING_START_HOUR must be between 0 and 23"
  ELSE IF JsLt(c.tradingHours.endHour, 0) \/ JsGt(c.tradingHours.endHour, 23)
  THEN "TRADING_END_HOUR must be between 0 and 23"
  ELSE IF c.gateio.positionMode \notin {"single_mode", "dual_mode"}
  THEN "GATEIO_POSITION_MODE must be either \"single_mode\" or \"dual_mode\""
  ELSE ""

\* The module body of settings.js: lines 13-17, 19-60, 63-89, 91.
loadSettings(e) ==
  LET missing == {k \in 1..Len(requiredEnvVars) : Falsy(e[requiredEnvVars[k]])}
      first   == CHOOSE k \in missing : \A l \in missing : k <= l
      error   == validateConfig(configOf(e))
  IN  IF missing # {}
      THEN SettingsThrown("Missing required environment variable: " \o requiredEnvVars[first])
      ELSE IF error # "" THEN SettingsThrown(error)
      ELSE [status |-> "exported", config |-> configOf(e)]

-----------------------------------------------------------------------------
(* Loading settings.js as a state machine.                                 *)

Credential == EnvText("secret")

\* All four credentials set, or one of them unset or empty.
CredentialEnvs ==
  LET allSet == [name \in {requiredEnvVars[k] : k \in 1..Len(requiredEnvVars)} |-> Credential]
  IN  {allSet} \cup
      { [allSet EXCEPT ![requiredEnvVars[k]] = bad]
          : k \in 1..Len(requiredEnvVars), bad \in {Unset, EmptyString} }

SettingEnvs ==
  [ RISK_PERCENTAGE      : {Unset, NumericString(0), NumericString(10001), EnvText("abc")},
    LEVERAGE             : {Unset, NumericString(101), EnvText("abc")},
    TAKE_PROFIT_PERCENT  : {Unset, NumericString(0)},
    STOP_LOSS_PERCENT    : {Unset, NumericString(-30)},
    MAX_DAILY_TRADES     : {Unset, NumericString(0)},
    MAX_OPEN_POSITIONS   : {Unset, NumericString(0)},
    TRADING_START_HOUR   : {Unset, NumericString(24)},
    TRADING_END_HOUR     : {Unset, NumericString(-1)},
    GATEIO_POSITION_MODE : {Unset, EnvText("DUAL_MODE"), EnvText("hedge")} ]

ProcessEnvs == {c @@ s : c \in CredentialEnvs, s \in SettingEnvs}

SettingsInit ==
  /\ RiskIdle
  /\ QueryIdle
  /\ SignIdle
  /\ ClientIdle
  /\ ConnectIdle
  /\ TradeIdle
  /\ processEnv \in ProcessEnvs
  /\ loaded = [status |-> "pending"]

\* The process imports settings.js.
LoadSettings ==
  /\ loaded.status = "pending"
  /\ loaded' = loadSettings(processEnv)
  /\ UNCHANGED processEnv
  /\ UNCHANGED exceptSettings

SettingsNext == LoadSettings

SpecSettings == SettingsInit /\ [][SettingsNext]_vars

\* C18: a load that exports a config saw all four credentials and only
\* values in range: risk percentage in (0, 100], leverage in [1, 100],
\* take-profit and stop-loss percent > 0, all of them numbers.
C18_FailFast ==
  loaded.status = "exported" =>
    /\ \A k \in 1..Len(requiredEnvVars) : ~Falsy(processEnv[requiredEnvVars[k]])
    /\ JsGt(loaded.config.risk.percentage, 0)
    /\ JsLeq(loaded.config.risk.percentage, 10000)
    /\ JsGt(loaded.config.risk.leverage, 0) /\ JsLeq(loaded.config.risk.leverage, 100)
    /\ JsGt(loaded.config.risk.takeProfitPercent, 0)
    /\ JsGt(loaded.config.risk.stopLossPercent, 0)

\* text.includes(pattern)
Contains(text, pattern) == IndexOf(text, pattern) # 0

\* The signatures of the requests handed to axios so far.
SentSignatures == {sent[i].axios.headers.SIGN : i \in 1..Len(sent)}

\* C19: no log entry contains the API secret, as a value of its own or
\* inside a logged text; the API key and the signature are never inside a
\* logged text either, and where they are logged fewer characters are
\* written than they have.  Entries of resolved and of rejected requests
\* are all in the log.
C19_SecretsRedacted ==
  \A k \in 1..Len(log) :
    LET v == log[k].value
    IN  /\ v.chars # apiSecret
        /\ v.kind = "text" =>
             /\ ~Contains(v.chars, apiSecret)
             /\ ~Contains(v.chars, apiKey)
             /\ \A signature \in SentSignatures : ~Contains(v.chars, signature)
        /\ v.kind = "key" => v.shown < ApiKeyLength
        /\ (v.kind = "hex" /\ v.chars \in SentSignatures) => v.shown < HexDigestLength

\* A request was answered and the next one failed; the key and the
\* signatures of both are in the log.
C19_Witness ==
  /\ Len(sent) = 2
  /\ outcome = "thrown"
  /\ \E j, k \in 1..Len(log) :
       /\ j < k
       /\ log[j].level = "info" /\ log[j].value = substring(Text(Accepted.data), 500)
       /\ log[k].level = "error" /\ log[k].value = Text(Refused.data)
  /\ \A i \in 1..2 :
       \E k \in 1..Len(log) :
         log[k].value.kind = "hex" /\ log[k].value.chars = sent[i].axios.headers.SIGN
  /\ \E k \in 1..Len(log) : log[k].value.kind = "key"

-----------------------------------------------------------------------------
(* Private requests under the scheduling the code can count on: time       *)
(* passes, callers get to run, and a pending axios call is ended by the    *)
(* client itself only when a timeout is configured.  Whether the exchange  *)
(* answers (Resolve, Reject) is not up to the code.                        *)

\* The timeout option of the axios calls (lines 68-76, 136-141, 610-616 and
\* 667-672): none is passed and no axios default is set, so it is axios's
\* own default, 0: no timeout.
axiosTimeout(d) == 0

\* axios rejects a pending call by itself once its timeout has elapsed.
TimedOut == Reject /\ axiosTimeout(draft) > 0

SpecSignLive ==
  /\ SignInit
  /\ [][SignNext]_vars
  /\ WF_vars(Tick)
  /\ WF_vars(Send)
  /\ WF_vars(TimedOut)

\* C20: a request that is awaiting axios eventually ends, by returning or
\* by throwing, whether or not the exchange answers.
C20_RequestsEnd == (pc = "awaiting") ~> (pc = "idle")

-----------------------------------------------------------------------------
(* More properties of the sizer (checked under SpecRisk) *)

\* (balance * 0.99 * riskPercentage / 100 * leverage) / entryPrice as an
\* exact quotient of micro-contracts.
ExpectedSize ==
  MulDiv(args.balance.v * 99, config.percentage * config.leverage, args.entryPrice.v)

\* That size at the granularity of the contracts: the nearest micro-contract
\* for fractional contracts; for whole contracts a whole number less than
\* one contract away from it.
IsExpectedQuantity(quantity) ==
  IF version = "fractional"
  THEN quantity = ExpectedSize.q + (IF 2 * ExpectedSize.r >= ExpectedSize.c THEN 1 ELSE 0)
  ELSE /\ quantity % 1000000 = 0
       /\ quantity - 1000000 < ExpectedSize.q
       /\ ExpectedSize.q < quantity + 1000000

\* No clamp applies to a quantity: it is within the limits the symbol has,
\* and its margin fits the usable balance.
NoClampApplies(quantity) ==
  /\ quantity >= 1000000 * integerMinQty(args.symbolInfo)
  /\ ~exceedsMaxQty(quantity, args.symbolInfo.maxQty)
  /\ QuotLe(MulDiv(quantity, args.entryPrice.v, 10000 * config.leverage),
            args.balance.v * 99)

\* C25: when a result is returned and the expected quantity needs no
\* clamping, the returned quantity is the expected one and requiredMargin is
\* quantity * entryPrice / leverage for the returned quantity.
C25_UnclampedQuantity ==
  (HasReturned /\ \E q \in {ExpectedSize.q - (ExpectedSize.q % 1000000),
                            ExpectedSize.q, ExpectedSize.q + 1} :
                    IsExpectedQuantity(q) /\ NoClampApplies(q))
    => /\ IsExpectedQuantity(result.quantity)
       /\ result.requiredMargin =
            MulDiv(result.quantity, args.entryPrice.v, 10000 * config.leverage)

\* The quantity of the integer draft after the clamp to [minQty, maxQty],
\* before the loop of lines 241-245.
ClampedQuantity ==
  integerClamp(integerQuantity(args.balance.v, args.entryPrice.v) * 1000000,
               integerMinQty(args.symbolInfo), args.symbolInfo.maxQty)

MarginFits(quantity) ==
  QuotLe(marginOf(quantity, args.entryPrice.v, config.leverage), args.balance.v * 99)

\* C26: when the margin of the clamped quantity exceeds usableBalance, the
\* call ends in one of two ways: it returns a quantity, not above the
\* clamped one and not below minQty, whose margin fits usableBalance; or the
\* margin does not fit even at minQty and it throws the insufficient-balance
\* error.
C26_ReduceToFit ==
  ( /\ version = "integer"
    /\ ArgsAreValid
    /\ result.status # "pending"
    /\ result.error # "StopLossDistance"
    /\ ~MarginFits(ClampedQuantity) )
  => \/ /\ HasReturned
        /\ result.quantity <= ClampedQuantity
        /\ result.quantity >= 1000000 * integerMinQty(args.symbolInfo)
        /\ MarginFits(result.quantity)
     \/ /\ HasThrown
        /\ result.error = "InsufficientBalance"
        /\ ~MarginFits(1000000 * integerMinQty(args.symbolInfo))

\* A quantity of the sizer (in 1e-6 contract) as openMarketOrder gets it (in
\* 1e-7 contract); contracts beyond one hundred are left out, the fraction
\* of a contract is kept.
AsOrderQuantity(quantity) ==
  IF quantity > 100 * 1000000
  THEN 10 * (100 * 1000000 + (quantity % 1000000))
  ELSE 10 * quantity

\* C30: every returned result has quantity > 0, and the entry order that
\* any draft of openMarketOrder builds from that quantity has a size that is
\* not zero.
C30_NonZeroOrder ==
  HasReturned =>
    /\ result.quantity > 0
    /\ \A d \in ServiceDrafts, side \in {"Buy", "Sell"} :
         marketOrder(d, <<"B", "T", "C", "U", "S", "D", "T">>, side,
                     AsOrderQuantity(result.quantity), result.direction).size # 0

-----------------------------------------------------------------------------
(* More properties of the query string (checked under SpecQuery) *)

\* s.split(sep) for a one-character separator.
Split(s, sep) ==
  LET parts[i \in 0..Len(s)] ==
        IF i = 0 THEN << <<>> >>
        ELSE LET before == parts[i - 1]
             IN  IF s[i] = sep THEN Append(before, <<>>)
                 ELSE [before EXCEPT ![Len(before)] = Append(@, s[i])]
  IN  parts[Len(s)]

\* The key=value pairs of a query string, in order.
PairsOf(qs) ==
  IF qs = <<>> THEN <<>>
  ELSE LET pairs == Split(qs, "&")
       IN  [i \in 1..Len(pairs) |->
              LET kv == Split(pairs[i], "=")
              IN  [key |-> kv[1], value |-> IF Len(kv) > 1 THEN kv[2] ELSE <<>>]]

\* The values emitted under a key, in order.
EmittedUnder(qs, key) ==
  LET IsKey(p) == p.key = key
      under == SelectSeq(PairsOf(qs), IsKey)
  IN  [i \in 1..Len(under) |-> under[i].value]

\* Percent-encoding of a value; a space is %20 or, form-encoded, +.
UrlEncodings(s) == {encodeURIComponent(s), formUrlEncode(s)}

\* C27: in the query string built from parameters that all have a value,
\* the pairs are those of the object's keys, and under each key there is
\* one pair per value (one for a string, one per element for an array, in
\* element order), each the URL-encoding of that value.
C27_EncodedPairs ==
  ( /\ queryString # NotBuilt
    /\ \A i \in 1..Len(queryParams) : queryParams[i].value.kind # "null" )
  => /\ \A j \in 1..Len(PairsOf(queryString)) :
          \E i \in 1..Len(queryParams) : PairsOf(queryString)[j].key = queryParams[i].key
     /\ \A i \in 1..Len(queryParams) :
          LET items   == queryParams[i].value.items
              emitted == EmittedUnder(queryString, queryParams[i].key)
          IN  /\ Len(emitted) = Len(items)
              /\ \A k \in 1..Len(items) : emitted[k] \in UrlEncodings(items[k])

-----------------------------------------------------------------------------
(* More properties of setLeverage (checked under SpecLeverage) *)

DualModeRequest(leverage) ==
  leverageRequest("draft1", <<"/dual_mode/positions/">>, leverage, "")
RegularRequest(leverage) ==
  leverageRequest("draft1", <<"/positions/">>, leverage, "")

-----------------------------------------------------------------------------
(* More properties of the client operations.                               *)

\* The last answer a setLeverage call has got.
LastResponse(o) == o.responses[Len(o.responses)]

\* The exchange accepted the leverage or reported that it is already set.
AcceptedOrAlreadySet(response) ==
  response.kind = "ok" \/ response \in NotModifiedResponses

\* C24: every client operation whose request fails throws the error it
\* received and returns no value; the only failure turned into a success is
\* the leverage-already-set answer, so setLeverage returns true only if the
\* exchange accepted the leverage or reported it already set.
C24_FailuresPropagate ==
  op.pc = "done" =>
    /\ (IsOrderOperation \/ IsPositionsOperation) /\ op.received # <<>> =>
         /\ op.result = "thrown"
         /\ op.thrown = op.received
    /\ op.kind = "setLeverage" =>
         /\ ~AcceptedOrAlreadySet(LastResponse(op)) =>
              /\ op.result = "thrown"
              /\ op.thrown = <<AxiosError(LastResponse(op))>>
         /\ op.result = "true" => AcceptedOrAlreadySet(LastResponse(op))

\* A private request that changes something at the exchange.
IsWrite(request) == request.method = <<"POST">>

\* C23: a write is never blindly sent again: an order operation sends at
\* most one request, and no operation sends a further write request after a
\* request of the same call has failed (no operation reads the exchange in
\* between to see whether the failed request took effect).
C23_NoBlindResend ==
  /\ IsOrderOperation => Len(op.requests) <= 1
  /\ op.kind = "setLeverage" =>
       \A i \in 1..Len(op.responses) :
         i < Len(op.requests) /\ IsWrite(op.requests[i + 1])
           => op.responses[i].kind = "ok"

-----------------------------------------------------------------------------
(* connect(): the public test, then the private test, then isConnected.    *)
(* Both drafts have the same code (lines 168-245 and 707-785).  A call is  *)
(* a record: pc is the test it awaits, tests the tests it has issued,       *)
(* passed the tests that returned true.                                    *)

\* new Error(message)
JsError(message) == [message |-> <<message>>]

\* What the awaited request of a test gives: data, or a rejection with error.
Data(data) == [failed |-> FALSE, data |-> data, error |-> JsError("")]
Rejected(error) == [failed |-> TRUE, data |-> [kind |-> "none"], error |-> error]

\* Array.isArray(contracts) && contracts.length > 0 (lines 177 and 715).
publicTestPasses(contracts) == contracts.kind = "array" /\ contracts.length > 0

\* account && account.total !== undefined (lines 200 and 740).
privateTestPasses(account) == account.kind = "object" /\ account.hasTotal

\* connect() up to the await in testPublicConnection (lines 215-224, 175).
connectStart ==
  [ pc |-> "public", tests |-> <<"public">>, passed |-> <<>>,
    result |-> "pending", thrown |-> <<>> ]

\* connect() whose catch block leaves this.isConnected as it was.
connectResumeKeeping(c, connected, answer) ==
  LET caught(error) ==
        [ call |-> [c EXCEPT !.pc = "done", !.result = "thrown", !.thrown = <<error>>],
          isConnected |-> connected ]
  IN  IF answer.failed THEN caught(answer.error)
      ELSE IF c.pc = "public"
      THEN IF publicTestPasses(answer.data)
           THEN [ call |-> [c EXCEPT !.pc = "private", !.passed = Append(@, "public"),
                                     !.tests = Append(@, "private")],
                  isConnected |-> connected ]
           ELSE caught(JsError("Invalid public response"))
      ELSE IF privateTestPasses(answer.data)
           THEN [ call |-> [c EXCEPT !.pc = "done", !.result = "true",
                                     !.passed = Append(@, "private")],
                  isConnected |-> TRUE ]
           ELSE caught(JsError("Invalid private response"))

\* connect() from the answer to the request it awaits to its next await or
\* its end (lines 175-189, 198-211 and 224-243): call is the call after the
\* step, isConnected the value of this.isConnected after it.
connectResume(c, connected, answer) ==
  LET caught(error) ==
        [ call |-> [c EXCEPT !.pc = "done", !.result = "thrown", !.thrown = <<error>>],
          isConnected |-> FALSE ]
  IN  IF answer.failed THEN caught(answer.error)
      ELSE IF c.pc = "public"
      THEN IF publicTestPasses(answer.data)
           THEN [ call |-> [c EXCEPT !.pc = "private", !.passed = Append(@, "public"),
                                     !.tests = Append(@, "private")],
                  isConnected |-> connected ]
           ELSE caught(JsError("Invalid public response"))
      ELSE IF privateTestPasses(answer.data)
           THEN [ call |-> [c EXCEPT !.pc = "done", !.result = "true",
                                     !.passed = Append(@, "private")],
                  isConnected |-> TRUE ]
           ELSE caught(JsError("Invalid private response"))

-----------------------------------------------------------------------------
(* connect() as a state machine; calls may overlap at their awaits.        *)

MaxConnectCalls == 2

\* What GET /futures/usdt/contracts can give: a list of contracts, an empty
\* list, something that is not a list, or a failure.
ContractsAnswers ==
  { Data([kind |-> "array", length |-> 2]), Data([kind |-> "array", length |-> 0]),
    Data([kind |-> "object", length |-> 0]) }
  \cup { Rejected(AxiosError(response)) : response \in Failures }

\* What GET /futures/usdt/accounts can give: an account, an object without
\* total, no object, or a failure.
AccountAnswers ==
  { Data([kind |-> "object", hasTotal |-> TRUE]),
    Data([kind |-> "object", hasTotal |-> FALSE]),
    Data([kind |-> "null", hasTotal |-> FALSE]) }
  \cup { Rejected(AxiosError(response)) : response \in Failures }

ConnectInit ==
  /\ RiskIdle
  /\ SettingsIdle
  /\ SignIdle
  /\ ClientIdle
  /\ draft \in Drafts
  /\ queryParams = <<>>
  /\ queryString = NotBuilt
  /\ isConnected = FALSE
  /\ connects = <<>>
  /\ TradeIdle

\* A caller invokes connect().
CallConnect ==
  /\ Len(connects) < MaxConnectCalls
  /\ connects' = Append(connects, connectStart)
  /\ UNCHANGED isConnected
  /\ UNCHANGED exceptConnect

\* The request a connect() call awaits is answered and the call resumes.
AnswerConnect ==
  /\ \E i \in 1..Len(connects) :
       /\ connects[i].pc # "done"
       /\ \E answer \in IF connects[i].pc = "public" THEN ContractsAnswers
                        ELSE AccountAnswers :
            LET after == connectResume(connects[i], isConnected, answer)
            IN  /\ connects' = [connects EXCEPT ![i] = after.call]
                /\ isConnected' = after.isConnected
  /\ UNCHANGED exceptConnect

ConnectNext == CallConnect \/ AnswerConnect

SpecConnect == ConnectInit /\ [][ConnectNext]_vars

\* The call that ends in this step, as it is after the step; <<>> if none.
Ending ==
  { i \in 1..Len(connects) : connects[i].pc # "done" /\ connects'[i].pc = "done" }

\* C29: connect() issues the public test first and the private test only
\* after the public one passed; when a call ends, isConnected is true
\* exactly if both tests passed in that call, so a failing call resets it to
\* false even after an earlier successful call.
C29_ConnectedIffBothPassed ==
  /\ [](\A i \in 1..Len(connects) :
          /\ connects[i].tests \in {<<"public">>, <<"public", "private">>}
          /\ connects[i].tests = <<"public", "private">>
               => connects[i].passed[1] = "public")
  /\ [][\A i \in Ending :
          /\ isConnected' = (connects'[i].passed = <<"public", "private">>)
          /\ connects'[i].result = "thrown" => ~isConnected']_vars

C29_Witness ==
  /\ Len(connects) = 2
  /\ connects[1].result = "true"
  /\ connects[2].result = "thrown"
  /\ connects[2].passed = <<"public">>
  /\ ~isConnected

-----------------------------------------------------------------------------
(* The order orchestrator: one trade attempt is a pipeline of four client  *)
(* calls, guarded by a mutex keyed by symbol.  An attempt is a record:     *)
(* stage is its state, pending the call it awaits (or ""), issued the      *)
(* calls it has made and succeeded the calls that returned, oldest first.  *)

Steps == <<"setLeverage", "openMarketOrder", "setTakeProfit", "setStopLoss">>

\* The states of an attempt in pipeline order; Complete and Failed are
\* terminal.
Stages == <<"Idle", "LeverageSet", "EntryPlaced", "TPSet", "SLSet">>

StageIndex(stage) == CHOOSE k \in 1..Len(Stages) : Stages[k] = stage
StepIndex(step) == CHOOSE k \in 1..Len(Steps) : Steps[k] = step

\* The steps that place the protective orders: the only ones that may be
\* tried again, a bounded number of times.
ProtectiveSteps == {"setTakeProfit", "setStopLoss"}
MaxRetries == 1

Idle(symbol) ==
  [ symbol |-> symbol, stage |-> "Idle", pending |-> "", issued |-> <<>>,
    succeeded |-> <<>>, retries |-> 0, failed |-> <<>> ]

\* The attempt may issue a call: it is in a state that has a next step and
\* awaits nothing.
mayProceed(a) ==
  a.pending = "" /\ a.stage \in {"Idle", "LeverageSet", "EntryPlaced", "TPSet"}

\* The attempt issues the call of its state.
issueStep(a) ==
  LET step == Steps[StageIndex(a.stage)]
  IN  [a EXCEPT !.pending = step, !.issued = Append(@, step)]

\* The awaited call returned: the attempt moves to the next state.
stepSucceeded(a) ==
  [a EXCEPT !.stage = Stages[StageIndex(@) + 1], !.pending = "",
            !.succeeded = Append(@, a.pending), !.retries = 0]

\* An attempt that goes on to the next state when its call has thrown.
stepFailedGoingOn(a, reason) ==
  [a EXCEPT !.stage = Stages[StageIndex(@) + 1], !.pending = "",
            !.failed = <<[stage |-> a.stage, reason |-> reason]>>]

\* The awaited call threw: a protective step is tried again while retries
\* are left; otherwise the attempt is Failed(stage, reason).
stepFailed(a, reason) ==
  IF a.pending \in ProtectiveSteps /\ a.retries < MaxRetries
  THEN [a EXCEPT !.pending = "", !.retries = @ + 1]
  ELSE [a EXCEPT !.stage = "Failed", !.pending = "",
                 !.failed = <<[stage |-> a.stage, reason |-> reason]>>]

\* A mutex that anyone can take at any time.
mutexFreeAlways(symbol) == TRUE

\* The mutex of the symbol is not held.
mutexFree(symbol) == mutex[symbol] = 0

-----------------------------------------------------------------------------
(* The orchestrator as a state machine.                                    *)

MaxAttempts == 2

FailureReasons == {"rejected", "no answer"}

TradeInit ==
  /\ RiskIdle
  /\ SettingsIdle
  /\ SignIdle
  /\ ClientIdle
  /\ ConnectIdle
  /\ draft \in Drafts
  /\ queryParams = <<>>
  /\ queryString = NotBuilt
  /\ attempts = <<>>
  /\ mutex = [symbol \in TradeSymbols |-> 0]

\* A trade decision for a symbol arrives.
StartAttempt ==
  /\ Len(attempts) < MaxAttempts
  /\ \E symbol \in TradeSymbols : attempts' = Append(attempts, Idle(symbol))
  /\ UNCHANGED mutex
  /\ UNCHANGED exceptTrade

\* The attempts that have been started.
Started == 1..Len(attempts)

Holds(i) == mutex[attempts[i].symbol] = i

\* An attempt takes the mutex of its symbol.
Acquire ==
  /\ \E i \in Started :
       /\ attempts[i].stage = "Idle" /\ ~Holds(i)
       /\ mutexFree(attempts[i].symbol)
       /\ mutex' = [mutex EXCEPT ![attempts[i].symbol] = i]
  /\ UNCHANGED attempts
  /\ UNCHANGED exceptTrade

\* The attempt that holds the mutex issues its next call.
IssueStep ==
  /\ \E i \in Started :
       /\ Holds(i) /\ mayProceed(attempts[i])
       /\ attempts' = [attempts EXCEPT ![i] = issueStep(@)]
  /\ UNCHANGED mutex
  /\ UNCHANGED exceptTrade

\* The awaited client call returns.
StepReturns ==
  /\ \E i \in Started :
       /\ attempts[i].pending # ""
       /\ attempts' = [attempts EXCEPT ![i] = stepSucceeded(@)]
  /\ UNCHANGED mutex
  /\ UNCHANGED exceptTrade

\* The awaited client call throws; an attempt that fails gives up the mutex.
StepThrows ==
  /\ \E i \in Started, reason \in FailureReasons :
       /\ attempts[i].pending # ""
       /\ attempts' = [attempts EXCEPT ![i] = stepFailed(@, reason)]
       /\ mutex' = IF attempts'[i].stage = "Failed"
                   THEN [mutex EXCEPT ![attempts[i].symbol] = 0]
                   ELSE mutex
  /\ UNCHANGED exceptTrade

\* Both protective orders are placed: the attempt is complete and gives up
\* the mutex.
Complete ==
  /\ \E i \in Started :
       /\ attempts[i].stage = "SLSet"
       /\ attempts' = [attempts EXCEPT ![i].stage = "Complete"]
       /\ mutex' = [mutex EXCEPT ![attempts[i].symbol] = 0]
  /\ UNCHANGED exceptTrade

TradeNext ==
  \/ StartAttempt
  \/ Acquire
  \/ IssueStep
  \/ StepReturns
  \/ StepThrows
  \/ Complete

SpecTrade == TradeInit /\ [][TradeNext]_vars

Trading(i) ==
  attempts[i].issued # <<>> /\ attempts[i].stage \notin {"Complete", "Failed"}

\* C22: two attempts for the same symbol are never both between their
\* first call and their end, so their leverage and order requests do not
\* interleave; attempts for different symbols may be.
C22_SerializedPerSymbol ==
  \A i, j \in Started :
    i # j /\ attempts[i].symbol = attempts[j].symbol => ~(Trading(i) /\ Trading(j))

C22_Witness ==
  \E i, j \in Started :
    /\ attempts[i].symbol # attempts[j].symbol
    /\ attempts[i].pending = "openMarketOrder"
    /\ attempts[j].pending = "setLeverage"

====
